---- MODULE Spec2Model ----
(***************************************************************************)
(* A model of the isolation sandbox subsystem of qiankun:                  *)
(*   - LegacySandbox (sandbox/legacy/sandbox.ts)                           *)
(*   - the window listener and interval patchers                           *)
(*   - the dynamic append patchers with the app counters                   *)
(*   - createSandboxContainer (sandbox/index.ts)                           *)
(*   - the singular-mode mount/unmount chains of loadApp (loader.ts)       *)
(*   - the hijacked appendChild / insertBefore of the strict sandbox       *)
(* Each part has its own variables and its own specification; a            *)
(* specification leaves the variables of the other parts unchanged.        *)
(***************************************************************************)
EXTENDS Integers, Sequences, FiniteSets, TLC

VARIABLES
  \* ---- LegacySandbox ----
  rawWindow,                              \* globalContext: key -> own property
  addedPropsMapInSandbox,                 \* Map, as a sequence of [k, v] in insertion order
  modifiedPropsOriginalValueMapInSandbox, \* Map, as a sequence of [k, v] in insertion order
  currentUpdatedPropsValueMap,            \* Map, as a sequence of [k, v] in insertion order
  sandboxRunning,
  latestSetProp,
  lgLast,                                 \* the last operation performed on the sandbox
  lgUntracked,                            \* a property was defined while the sandbox was not running
  lgOps,                                  \* number of proxy operations performed so far
  lgRead,                                 \* the last read through the proxy: key and value
  \* ---- createSandboxContainer, dynamic append patchers ----
  ctCreated,              \* app -> createSandboxContainer has been called for it
  bootstrappingFreers,    \* app -> Freer[]
  mountingFreers,         \* app -> Freer[]
  sideEffectsRebuilders,  \* app -> Rebuilder[]
  ctRunning,              \* app -> sandbox.sandboxRunning
  appsCounterMap,         \* app -> {bootstrappingPatchCount, mountingPatchCount}
  proto,                  \* HTMLHeadElement / HTMLBodyElement prototype functions
  ctTrace,                \* the steps performed by the last container call, in order
  ctLastCall,             \* the last container call
  ctCalls,                \* number of container calls so far
  \* ---- loadApp: the mount / unmount chains of the parcel config ----
  ldSingular,               \* app -> the singular flag of its configuration
  ldLegacyRender,           \* app -> it has a render function, with scopedCSS or strictStyleIsolation
  ldPc,                     \* app -> where its load / mount / unmount task stands
  ldAwait,                  \* app -> the Deferred whose promise its task awaits (0: none)
  ldDeferreds,              \* the Deferreds created so far: resolved or not
  prevAppUnmountedDeferred, \* index into ldDeferreds (0: undefined)
  ldSandboxMounted,         \* app -> mountSandbox has run and unmountSandbox has not yet
  ldContainer,            \* app -> its container element is in the document
  ldError,                \* app -> the error that loadApp or the mount chain gave its caller
  \* ---- strict sandbox: the document as the hijacked prototype functions see it ----
  dmWrapper,                        \* app -> its wrapper element exists (appWrapperGetter returns it)
  dmTag,                            \* element -> tagName ("none": not created yet)
  elementAttachContainerConfigMap,  \* element -> the app whose container config it is attached to
  dmChildren,                       \* <<document or app, head or body>> -> child nodes in order
  dmScopedCSS,                      \* app -> scopedCSS of its container config
  dynamicStyleSheetElements,        \* app -> the nodes recorded in its container config
  dynamicLinkAttachedInlineStyleMap,\* link element -> the inline style inserted for it
  dynamicScriptAttachedCommentMap,  \* script element -> the comment inserted for it
  dmSheetProps,                     \* Map node -> its styleElementTargetSymbol / styleElementRefNodeNo
  dmFetch,                          \* element -> the requests made for it and what it has heard
  dmUnmounted,                      \* app -> the recorded stylesheets in its wrapper at its last unmount
  dmLast,                           \* the last prototype function call
  dmOps,                            \* number of prototype function calls so far
  \* ---- window listener patcher ----
  lsGlobal,        \* global.addEventListener / removeEventListener: "raw" or "patched"
  listenerMap,     \* Map type -> ListenerMapObject[], as a sequence of [k, v]
  lsGen,           \* number of patch(global) calls so far: names the current listenerMap
  lsWindow,        \* the registrations held by the underlying window
  lsPreFree,       \* the registrations of the registry entries when free() was last called
  lsLast,          \* the last operation
  lsOps,           \* number of operations so far
  \* ---- interval patcher ----
  ivGlobal,        \* global.setInterval / clearInterval: "raw" or "patched"
  intervals,       \* the ids recorded by the patch
  ivTimers,        \* the intervals running on the underlying window
  ivNextId,        \* the id the next window.setInterval returns
  ivCreated,       \* ids returned by the patched setInterval since patch(global)
  ivCleared,       \* of these, the ids passed to the patched clearInterval before free()
  ivLast,          \* the last operation
  \* ---- ScopedCSS: one style element ----
  textContent,     \* styleNode.textContent: its rules and comments
  cssModifiedTag,  \* ScopedCSS.ModifiedTag in styleNode
  cssConnected,    \* the element is in the document: styleNode.sheet is not null
  cssObservers,    \* the MutationObservers of the element: prefix, records pending
  cssRewrites,     \* number of times the element was rewritten
  cssLast,         \* the last operation on the element
  cssOps,          \* number of operations so far
  \* ---- the framework configuration and the sandbox of each app ----
  fwProxy,                \* window.Proxy is defined
  fwDestruct,             \* isConstDestructAssignmentSupported()
  started,
  frameworkConfiguration, \* its sandbox member
  fwOpts,                 \* the sandbox member of the opts given to start
  fwInstance,             \* app -> the sandbox instance created for it, and for which configuration
  \* ---- rebindTarget2Fn: functions read through the proxies of two sandboxes ----
  functionBoundedValueMap, \* WeakMap fn -> the bound function made for it
  rbWindow,                \* key -> the function the real window holds under it
  rbBinds,                 \* number of Function.prototype.bind calls so far
  rbReturned,              \* fn -> the values that reads of it through a proxy returned
  rbReaders,               \* fn -> the sandboxes that read it
  rbOps,                   \* number of operations so far
  rbLast,                          \* the last call of rebindTarget2Fn: target, fn, value returned
  \* ---- registerMicroApps, loadMicroApp and their loading functions ----
  microApps,                 \* the registered apps, in order: their names
  registerApplicationCalls,  \* name -> number of registerApplication calls made with it
  apLoader,                  \* name -> where the loading function of the registered app stands
  appConfigPromiseGetterMap, \* Map key -> promise of loadApp, as a sequence of [k, v]
  apParcels,                 \* the loadMicroApp calls so far, each with its loading task
  apLoadApps,                \* the loadApp calls so far
  apRegisterCalls,           \* number of registerMicroApps calls so far
  \* ---- loose sandbox: style elements appended to document.head ----
  lpActive,    \* the names that checkActivityFunctions(window.location) returns
  lpRecorded,  \* app -> number of elements in the dynamicStyleSheetElements of its patchers
  lpLast,      \* the last head.appendChild call
  lpOps,        \* number of head.appendChild calls so far
  \* ---- patchDocument in speedy mode ----
  mutationObserverObserve,   \* MutationObserver.prototype.observe
  compareDocumentPosition,   \* Node.prototype.compareDocumentPosition
  patchMap,   \* the keys of patchMap
  pdCounterMap,   \* appsCounterMap as the calls of patchStrictSandbox and of the freers leave it
  pdFreers,   \* the free functions returned so far, with what unpatchDocument captured
  pdOps   \* calls so far

varsLegacy == <<rawWindow, addedPropsMapInSandbox, modifiedPropsOriginalValueMapInSandbox,
                currentUpdatedPropsValueMap, sandboxRunning, latestSetProp,
                lgLast, lgUntracked, lgOps, lgRead>>

varsContainer == <<ctCreated, bootstrappingFreers, mountingFreers, sideEffectsRebuilders,
                   ctRunning, appsCounterMap, proto, ctTrace, ctLastCall, ctCalls>>

varsLoader == <<ldSingular, ldLegacyRender, ldPc, ldAwait, ldDeferreds, prevAppUnmountedDeferred,
                ldSandboxMounted, ldContainer, ldError>>

varsDom == <<dmWrapper, dmTag, elementAttachContainerConfigMap, dmChildren, dmScopedCSS,
             dynamicStyleSheetElements, dynamicLinkAttachedInlineStyleMap,
             dynamicScriptAttachedCommentMap, dmSheetProps, dmUnmounted, dmFetch, dmLast,
             dmOps>>

varsListener == <<lsGlobal, listenerMap, lsGen, lsWindow, lsPreFree, lsLast, lsOps>>

varsInterval == <<ivGlobal, intervals, ivTimers, ivNextId, ivCreated, ivCleared, ivLast>>

varsCss == <<textContent, cssModifiedTag, cssConnected, cssObservers, cssRewrites, cssLast,
             cssOps>>

varsFramework == <<fwProxy, fwDestruct, started, frameworkConfiguration, fwOpts, fwInstance>>

varsRebind ==
  <<functionBoundedValueMap, rbWindow, rbBinds, rbReturned, rbReaders, rbOps, rbLast>>

varsApi ==
  <<microApps,
    registerApplicationCalls,
    apLoader,
    appConfigPromiseGetterMap,
    apParcels,
    apLoadApps,
    apRegisterCalls>>

varsLoose ==
  <<lpActive,
    lpRecorded,
    lpLast,
    lpOps>>

varsDocument ==
  <<mutationObserverObserve,
    compareDocumentPosition,
    patchMap,
    pdCounterMap,
    pdFreers,
    pdOps>>

vars ==
  <<varsLegacy,
    varsContainer,
    varsLoader,
    varsDom,
    varsListener,
    varsInterval,
    varsCss,
    varsFramework,
    varsRebind,
    varsApi,
    varsLoose,
    varsDocument>>

\* what the operations of one part leave alone
notLegacy == <<varsContainer, varsLoader, varsDom, varsListener, varsInterval, varsCss,
  varsFramework, varsRebind,
  varsApi,
  varsLoose,
  varsDocument>>
notContainer == <<varsLegacy, varsLoader, varsDom, varsListener, varsInterval, varsCss,
  varsFramework, varsRebind,
  varsApi,
  varsLoose,
  varsDocument>>
notLoader == <<varsLegacy, varsContainer, varsDom, varsListener, varsInterval, varsCss,
  varsFramework, varsRebind,
  varsApi,
  varsLoose,
  varsDocument>>
notDom == <<varsLegacy, varsLoader, varsListener, varsInterval, varsCss,
  varsFramework, varsRebind,
  varsApi,
  varsLoose,
  varsDocument>>
notListener == <<varsLegacy, varsContainer, varsLoader, varsDom, varsInterval, varsCss,
  varsFramework, varsRebind,
  varsApi,
  varsLoose,
  varsDocument>>
notCss == <<varsLegacy, varsContainer, varsLoader, varsDom, varsListener, varsInterval,
  varsFramework, varsRebind,
  varsApi,
  varsLoose,
  varsDocument>>
notFramework == <<varsLegacy, varsContainer, varsLoader, varsDom, varsListener, varsInterval,
  varsCss, varsRebind,
  varsApi,
  varsLoose,
  varsDocument>>
notRebind == <<varsLegacy, varsContainer, varsLoader, varsDom, varsListener, varsInterval,
  varsCss, varsFramework,
  varsApi,
  varsLoose,
  varsDocument>>
notInterval == <<varsLegacy, varsContainer, varsLoader, varsDom, varsListener, varsCss,
  varsFramework, varsRebind,
  varsApi,
  varsLoose,
  varsDocument>>
notLoose ==
  <<varsLegacy,
    varsContainer,
    varsLoader,
    varsDom,
    varsListener,
    varsInterval,
    varsCss,
    varsFramework,
    varsRebind,
    varsApi,
  varsDocument>>
notApi ==
  <<varsLegacy,
    varsContainer,
    varsLoader,
    varsDom,
    varsListener,
    varsInterval,
    varsCss,
    varsFramework,
    varsRebind,
  varsLoose,
  varsDocument>>
notDocument ==
  <<varsLegacy,
    varsContainer,
    varsLoader,
    varsDom,
    varsListener,
    varsInterval,
    varsCss,
    varsFramework,
    varsRebind,
    varsApi,
    varsLoose>>

(***************************************************************************)
(* JavaScript values and Maps                                              *)
(***************************************************************************)
Undef == "undefined"
Null == "null"

\* Map.prototype.has
MapHas(m, k) == \E i \in 1..Len(m) : m[i].k = k

\* Map.prototype.get
MapGet(m, k) ==
  IF MapHas(m, k) THEN m[CHOOSE i \in 1..Len(m) : m[i].k = k].v ELSE Undef

\* Map.prototype.set: an existing key keeps its place in the iteration order
MapSet(m, k, v) ==
  IF MapHas(m, k)
  THEN [i \in 1..Len(m) |-> IF m[i].k = k THEN [k |-> k, v |-> v] ELSE m[i]]
  ELSE Append(m, [k |-> k, v |-> v])

MapKeys(m) == {m[i].k : i \in 1..Len(m)}

(***************************************************************************)
(* LegacySandbox                                                           *)
(***************************************************************************)
MaxLegacyOps == 3

\* "g": a configurable own property of window; "v": a non-configurable writable
\* own property (a host `var`); "n": not a property of window; "s": a symbol key
\* that is a configurable own property; "t": a symbol key that is not a property
\* of window.
LegacyKeys == {"g", "v", "n", "s", "t"}
IsSymbol(p) == p \in {"s", "t"}
LegacyValues == {"x", "y"}

Absent == [has |-> FALSE, val |-> Undef, conf |-> TRUE]

\* the keys that name the global itself
SelfReferentialKeys == {"top", "parent", "window", "self"}

\* the real window, as a value
RealWindow == "window"

\* the proxy of the sandbox, as a value
Proxy == "proxy"

\* window.self is a configurable property that an assignment replaces
InitWindow ==
  [p \in LegacyKeys \cup {"self"} |->
     CASE p = "g" -> [has |-> TRUE, val |-> "o", conf |-> TRUE]
       [] p = "self" -> [has |-> TRUE, val |-> RealWindow, conf |-> TRUE]
       [] p = "v" -> [has |-> TRUE, val |-> "o", conf |-> FALSE]
       [] p = "s" -> [has |-> TRUE, val |-> "o", conf |-> TRUE]
       [] OTHER   -> Absent]

\* rawWindow[p]
WindowGet(w, p) == IF w[p].has THEN w[p].val ELSE Undef

isPropConfigurable(w, p) == IF w[p].has THEN w[p].conf ELSE TRUE

\* LegacySandbox.setWindowProp: the window afterwards, and whether the strict-mode
\* delete of a non-configurable property threw
setWindowProp(w, p, value, toDelete) ==
  IF value = Undef /\ toDelete
  THEN IF w[p].has /\ ~w[p].conf
       THEN [w |-> w, threw |-> TRUE]
       ELSE [w |-> [w EXCEPT ![p] = Absent], threw |-> FALSE]
  ELSE IF isPropConfigurable(w, p) /\ ~IsSymbol(p)
       THEN [w |-> [w EXCEPT ![p] = [has |-> TRUE, val |-> value, conf |-> TRUE]],
             threw |-> FALSE]
       ELSE [w |-> w, threw |-> FALSE]

\* map.forEach((v, p) => this.setWindowProp(p, v)) from entry i on
RECURSIVE ReplayEntries(_, _, _)
ReplayEntries(w, m, i) ==
  IF i > Len(m) THEN w
  ELSE ReplayEntries(setWindowProp(w, m[i].k, m[i].v, FALSE).w, m, i + 1)

\* addedPropsMapInSandbox.forEach((_, p) => this.setWindowProp(p, undefined, true))
\* from entry i on; the iteration ends at the first call that throws
RECURSIVE DeleteEntries(_, _, _)
DeleteEntries(w, m, i) ==
  IF i > Len(m) THEN [w |-> w, threw |-> FALSE]
  ELSE LET r == setWindowProp(w, m[i].k, Undef, TRUE)
       IN IF r.threw THEN r ELSE DeleteEntries(r.w, m, i + 1)

\* Reflect.defineProperty(rawWindow, p, attributes) for a writable data descriptor
\* attributes = {value, configurable}: a non-configurable property cannot be made
\* configurable again
ReflectDefineProperty(w, p, attributes) ==
  IF w[p].has /\ ~w[p].conf /\ attributes.configurable
  THEN w
  ELSE [w EXCEPT ![p] = [has |-> TRUE, val |-> attributes.value,
                         conf |-> attributes.configurable]]

\* setTrap on a running sandbox: the maps and the window afterwards
setTrapRunning(w, added, modified, current, p, value, originalValue, sync2Window) ==
  [added    |-> IF ~w[p].has THEN MapSet(added, p, value) ELSE added,
   modified |-> IF w[p].has /\ ~MapHas(modified, p)
                THEN MapSet(modified, p, originalValue) ELSE modified,
   current  |-> MapSet(current, p, value),
   w        |-> IF sync2Window
                THEN [w EXCEPT ![p] = [has |-> TRUE, val |-> value,
                                       conf |-> isPropConfigurable(w, p)]]
                ELSE w]

\* setTrap: nothing is recorded when the sandbox is not running
setTrap(w, p, value, originalValue, sync2Window) ==
  IF sandboxRunning
  THEN LET r == setTrapRunning(w, addedPropsMapInSandbox,
                               modifiedPropsOriginalValueMapInSandbox,
                               currentUpdatedPropsValueMap,
                               p, value, originalValue, sync2Window)
       IN /\ addedPropsMapInSandbox' = r.added
          /\ modifiedPropsOriginalValueMapInSandbox' = r.modified
          /\ currentUpdatedPropsValueMap' = r.current
          /\ rawWindow' = r.w
          /\ latestSetProp' = p
  ELSE /\ rawWindow' = w
       /\ UNCHANGED <<addedPropsMapInSandbox, modifiedPropsOriginalValueMapInSandbox,
                      currentUpdatedPropsValueMap, latestSetProp>>

\* the proxy's set trap: proxy[p] = value
ProxySet(p, value) ==
  /\ lgOps < MaxLegacyOps
  /\ setTrap(rawWindow, p, value, WindowGet(rawWindow, p), TRUE)
  /\ lgLast' = "set"
  /\ lgOps' = lgOps + 1
  /\ UNCHANGED <<sandboxRunning, lgUntracked, lgRead, notLegacy>>

\* the proxy's defineProperty trap: Object.defineProperty(proxy, p, attributes)
ProxyDefineProperty(p, attributes) ==
  /\ lgOps < MaxLegacyOps
  /\ LET originalValue == WindowGet(rawWindow, p)
         w1 == ReflectDefineProperty(rawWindow, p, attributes)
     IN /\ setTrap(w1, p, WindowGet(w1, p), originalValue, FALSE)
        /\ lgUntracked' = (lgUntracked \/ (~sandboxRunning /\ w1 # rawWindow))
  /\ lgLast' = "define"
  /\ lgOps' = lgOps + 1
  /\ UNCHANGED <<sandboxRunning, lgRead, notLegacy>>

\* rawWindow[p]: window, top and parent cannot be replaced
rawWindowGet(w, p) == IF p \in DOMAIN w THEN WindowGet(w, p) ELSE RealWindow

\* a get trap that reads every key from the window
getTrap_rawWindow(w, p) == rawWindowGet(w, p)

\* the proxy's get trap; rebindTarget2Fn returns a value that is not a function
\* as it is
getTrap(w, p) == IF p \in SelfReferentialKeys THEN Proxy ELSE rawWindowGet(w, p)

\* proxy[p]
ProxyGet(p) ==
  /\ lgRead' = [key |-> p, value |-> getTrap(rawWindow, p)]
  /\ UNCHANGED <<rawWindow, addedPropsMapInSandbox, modifiedPropsOriginalValueMapInSandbox,
                 currentUpdatedPropsValueMap, sandboxRunning, latestSetProp, lgLast,
                 lgUntracked, lgOps, notLegacy>>

\* LegacySandbox.active
active ==
  /\ rawWindow' = IF ~sandboxRunning
                  THEN ReplayEntries(rawWindow, currentUpdatedPropsValueMap, 1)
                  ELSE rawWindow
  /\ sandboxRunning' = TRUE
  /\ lgLast' = "active"
  /\ UNCHANGED <<addedPropsMapInSandbox, modifiedPropsOriginalValueMapInSandbox,
                 currentUpdatedPropsValueMap, latestSetProp, lgUntracked, lgOps, lgRead,
                 notLegacy>>

\* LegacySandbox.inactive: a delete that throws leaves the sandbox running
inactive ==
  /\ LET w1 == ReplayEntries(rawWindow, modifiedPropsOriginalValueMapInSandbox, 1)
         r  == DeleteEntries(w1, addedPropsMapInSandbox, 1)
     IN /\ rawWindow' = r.w
        /\ sandboxRunning' = IF r.threw THEN sandboxRunning ELSE FALSE
        /\ lgLast' = IF r.threw THEN "inactiveThrew" ELSE "inactive"
  /\ UNCHANGED <<addedPropsMapInSandbox, modifiedPropsOriginalValueMapInSandbox,
                 currentUpdatedPropsValueMap, latestSetProp, lgUntracked, lgOps, lgRead,
                 notLegacy>>

InitLegacy ==
  /\ rawWindow = InitWindow
  /\ addedPropsMapInSandbox = <<>>
  /\ modifiedPropsOriginalValueMapInSandbox = <<>>
  /\ currentUpdatedPropsValueMap = <<>>
  /\ sandboxRunning = TRUE
  /\ latestSetProp = Null
  /\ lgLast = "none"
  /\ lgUntracked = FALSE
  /\ lgOps = 0
  /\ lgRead = [key |-> "none", value |-> Undef]

LegacyAttributes == [value : LegacyValues, configurable : BOOLEAN]

NextLegacy ==
  \/ \E p \in LegacyKeys, value \in LegacyValues : ProxySet(p, value)
  \/ \E p \in LegacyKeys, attributes \in LegacyAttributes : ProxyDefineProperty(p, attributes)
  \/ active
  \/ inactive

\* the keys an app reads and writes when it looks for the global
GlobalKeys == SelfReferentialKeys \cup {"g"}

\* the sandbox with reads through the proxy
NextProxyGet ==
  \/ \E p \in {"g", "self"}, value \in LegacyValues : ProxySet(p, value)
  \/ \E p \in GlobalKeys : ProxyGet(p)
  \/ active
  \/ inactive

(***************************************************************************)
(* Claims about LegacySandbox                                              *)
(***************************************************************************)

\* C1: after a deactivation that follows writes made only while the sandbox was
\* running, every key holds its pre-activation value again and every added key
\* is absent: the real global equals its state before the first mount.
C1_GlobalRestoredAfterInactive ==
  (lgLast = "inactive" /\ ~lgUntracked) =>
     \A p \in LegacyKeys : /\ rawWindow[p].has = InitWindow[p].has
                           /\ WindowGet(rawWindow, p) = WindowGet(InitWindow, p)

\* C2: the keys recorded in addedPropsMapInSandbox and the keys recorded in
\* modifiedPropsOriginalValueMapInSandbox are disjoint in every reachable state.
C2_AddedModifiedDisjoint ==
  MapKeys(addedPropsMapInSandbox) \cap MapKeys(modifiedPropsOriginalValueMapInSandbox) = {}

\* C13: active() on a running sandbox changes neither the window nor a tracking
\* map; on a sandbox that is not running it sets every key of
\* currentUpdatedPropsValueMap, which inactive() leaves as it is, to the value the
\* app wrote last.
C13_ActiveReplaysCurrentValues ==
  [][ lgLast' = "active" =>
        /\ UNCHANGED <<addedPropsMapInSandbox, modifiedPropsOriginalValueMapInSandbox,
                       currentUpdatedPropsValueMap>>
        /\ sandboxRunning => rawWindow' = rawWindow
        /\ (~sandboxRunning /\ ~lgUntracked) =>
             \A p \in MapKeys(currentUpdatedPropsValueMap) :
               /\ rawWindow'[p].has
               /\ WindowGet(rawWindow', p) = MapGet(currentUpdatedPropsValueMap, p)
    ]_vars

\* C17: a read of window, self, top or parent through the proxy returns the proxy
\* and never the real window, whether the sandbox is running or not.
C17_SelfReferentialKeysReturnProxy ==
  lgRead.key \in SelfReferentialKeys =>
    lgRead.value = Proxy /\ lgRead.value # RealWindow

\* self has been read through the proxy of a sandbox that is not running, after
\* the app has written to self
C17_Witness ==
  /\ lgRead.key = "self"
  /\ lgRead.value = Proxy
  /\ ~sandboxRunning
  /\ MapHas(currentUpdatedPropsValueMap, "self")

\* a step that is a defineProperty through the proxy
DefineStep == lgLast' = "define" /\ lgOps' = lgOps + 1

\* C25: a defineProperty through the proxy of a running sandbox is tracked like a set of
\* the same key: a key that the window did not have before the definition is recorded in
\* addedPropsMapInSandbox, a key that it had has its value from before the definition
\* recorded in modifiedPropsOriginalValueMapInSandbox unless the map has the key, and
\* currentUpdatedPropsValueMap receives the resulting value.
C25_DefineTrackedLikeSet ==
  [][ DefineStep /\ sandboxRunning =>
        LET p == latestSetProp'
        IN /\ ~rawWindow[p].has =>
                /\ MapHas(addedPropsMapInSandbox', p)
                /\ modifiedPropsOriginalValueMapInSandbox' =
                     modifiedPropsOriginalValueMapInSandbox
           /\ rawWindow[p].has =>
                /\ addedPropsMapInSandbox' = addedPropsMapInSandbox
                /\ modifiedPropsOriginalValueMapInSandbox' =
                     IF MapHas(modifiedPropsOriginalValueMapInSandbox, p)
                     THEN modifiedPropsOriginalValueMapInSandbox
                     ELSE MapSet(modifiedPropsOriginalValueMapInSandbox, p,
                                 WindowGet(rawWindow, p))
           /\ MapGet(currentUpdatedPropsValueMap', p) = WindowGet(rawWindow', p)
    ]_vars

\* C28: while the sandbox is not running, a set or a defineProperty through the proxy
\* changes neither the window nor one of the three tracking maps.
C28_NotRunningChangesNothing ==
  [][ ~sandboxRunning /\ lgOps' = lgOps + 1 /\ lgLast' \in {"set", "define"} =>
        UNCHANGED <<rawWindow, addedPropsMapInSandbox,
                    modifiedPropsOriginalValueMapInSandbox, currentUpdatedPropsValueMap>>
    ]_vars

(***************************************************************************)
(* Dynamic append patchers: the app counters and the prototype hijack      *)
(***************************************************************************)
MaxCalls == 5

Apps == {"app1", "app2"}

\* A prototype function is the stack of hijacks around the native function, the
\* innermost first: <<>> is the native function, <<a>> the function that
\* getOverwrittenAppendChildOrInsertBefore / getNewRemoveChild built around it for
\* the patch call of app a.
NativeProto ==
  [headAppendChild |-> <<>>, bodyAppendChild |-> <<>>, headInsertBefore |-> <<>>,
   headRemoveChild |-> <<>>, bodyRemoveChild |-> <<>>]

\* fn[overwrittenSymbol] === true
isOverwritten(fn) == Len(fn) > 0

ZeroCount == [bootstrappingPatchCount |-> 0, mountingPatchCount |-> 0]

\* calcAppCount without the guard of its decrease branch
calcAppCount_unguarded(counterMap, appName, calcType, status) ==
  [counterMap EXCEPT ![appName][status] = IF calcType = "increase" THEN @ + 1 ELSE @ - 1]

calcAppCount(counterMap, appName, calcType, status) ==
  LET appCount == counterMap[appName]
  IN [counterMap EXCEPT ![appName] =
        IF calcType = "increase"
        THEN [appCount EXCEPT ![status] = @ + 1]
        ELSE IF appCount[status] > 0
             THEN [appCount EXCEPT ![status] = @ - 1]
             ELSE appCount]

\* isAllAppsUnmounted looking at the mounting counts only
isAllAppsUnmounted_mountingOnly(counterMap) ==
  \A a \in DOMAIN counterMap : counterMap[a].mountingPatchCount = 0

isAllAppsUnmounted(counterMap) ==
  \A a \in DOMAIN counterMap :
     counterMap[a].bootstrappingPatchCount = 0 /\ counterMap[a].mountingPatchCount = 0

\* patchHTMLDynamicAppendPrototypeFunctions called for app owner: the prototype
\* afterwards and the functions its unpatch closure restores
patchHTMLDynamicAppendPrototypeFunctions(pr, owner) ==
  LET rawHeadAppendChild == pr.headAppendChild
      rawBodyAppendChild == pr.bodyAppendChild
      rawHeadInsertBefore == pr.headInsertBefore
      p1 == IF /\ ~isOverwritten(rawHeadAppendChild)
               /\ ~isOverwritten(rawBodyAppendChild)
               /\ ~isOverwritten(rawHeadInsertBefore)
            THEN [pr EXCEPT !.headAppendChild = Append(rawHeadAppendChild, owner),
                            !.bodyAppendChild = Append(rawBodyAppendChild, owner),
                            !.headInsertBefore = Append(rawHeadInsertBefore, owner)]
            ELSE pr
      rawHeadRemoveChild == p1.headRemoveChild
      rawBodyRemoveChild == p1.bodyRemoveChild
      p2 == IF ~isOverwritten(rawHeadRemoveChild) /\ ~isOverwritten(rawBodyRemoveChild)
            THEN [p1 EXCEPT !.headRemoveChild = Append(rawHeadRemoveChild, owner),
                            !.bodyRemoveChild = Append(rawBodyRemoveChild, owner)]
            ELSE p1
  IN [proto |-> p2,
      unpatch |-> [headAppendChild |-> rawHeadAppendChild,
                   headRemoveChild |-> rawHeadRemoveChild,
                   bodyAppendChild |-> rawBodyAppendChild,
                   bodyRemoveChild |-> rawBodyRemoveChild,
                   headInsertBefore |-> rawHeadInsertBefore]]

PatchStatus(mounting) == IF mounting THEN "mountingPatchCount" ELSE "bootstrappingPatchCount"

\* A Freer. type is the patcher that returned it, gen the container call that
\* installed it; unpatch holds what the closure of a dynamic append freer captured.
Freer(type, appName, mounting, gen, captured) ==
  [type |-> type, app |-> appName, mounting |-> mounting, gen |-> gen, unpatch |-> captured]

\* patchLooseSandbox / patchStrictSandbox: st = [counters, proto] afterwards, and the freer
patchSandbox(st, appName, mounting, gen) ==
  LET r == patchHTMLDynamicAppendPrototypeFunctions(st.proto, appName)
  IN [st |-> [counters |-> calcAppCount(st.counters, appName, "increase", PatchStatus(mounting)),
              proto |-> r.proto],
      freer |-> Freer("dynamicAppend", appName, mounting, gen, <<r.unpatch>>)]

\* free() of a freer: st afterwards; the interval, listener and history freers touch
\* neither the counters nor the prototype
free(st, freer) ==
  IF freer.type = "dynamicAppend"
  THEN LET c == calcAppCount(st.counters, freer.app, "decrease", PatchStatus(freer.mounting))
           unpatched == isAllAppsUnmounted(c)
       IN [st |-> [counters |-> c,
                   proto |-> IF unpatched THEN freer.unpatch[1] ELSE st.proto],
           unpatched |-> unpatched]
  ELSE [st |-> st, unpatched |-> FALSE]

(***************************************************************************)
(* createSandboxContainer                                                  *)
(***************************************************************************)
NoFreer == Freer("none", "none", FALSE, 0, <<>>)

\* One step of a container call, as recorded in ctTrace
Step(ev, freer, unpatched, counters) ==
  [ev |-> ev, freer |-> freer, unpatched |-> unpatched, counters |-> counters]

\* patchAtBootstrapping: [patchLooseSandbox / patchStrictSandbox (mounting = false)]
patchAtBootstrapping(st, appName, gen) ==
  LET r == patchSandbox(st, appName, FALSE, gen)
  IN [st |-> r.st, freers |-> <<r.freer>>]

\* patchAtMounting: [patchInterval, patchWindowListener, patchHistoryListener,
\* patchLooseSandbox / patchStrictSandbox (mounting = true)]
patchAtMounting(st, appName, gen) ==
  LET r == patchSandbox(st, appName, TRUE, gen)
  IN [st |-> r.st,
      freers |-> << Freer("interval", appName, TRUE, gen, <<>>),
                    Freer("windowListener", appName, TRUE, gen, <<>>),
                    Freer("historyListener", appName, TRUE, gen, <<>>),
                    r.freer >>]

\* the Rebuilder a freer returns
Rebuilder(freer) == [of |-> freer]

\* rebuilders.forEach((rebuild) => rebuild())
RebuildSteps(rebuilders, counters) ==
  [i \in 1..Len(rebuilders) |-> Step("rebuild", rebuilders[i].of, FALSE, counters)]

\* [...].map((free) => free()) from freer i on: acc = [st, steps, rebuilders]
RECURSIVE FreeAll(_, _, _)
FreeAll(freers, i, acc) ==
  IF i > Len(freers) THEN acc
  ELSE LET r == free(acc.st, freers[i])
       IN FreeAll(freers, i + 1,
                  [st |-> r.st,
                   steps |-> Append(acc.steps, Step("free", freers[i], r.unpatched, r.st.counters)),
                   rebuilders |-> Append(acc.rebuilders, Rebuilder(freers[i]))])

\* mount() installing the mount-time patches before any rebuilder has run
mountOrder_patchFirst(activeStep, rebuildAtBootstrapping, patchStep, rebuildAtMounting, clearStep) ==
  activeStep \o patchStep \o rebuildAtBootstrapping \o rebuildAtMounting \o clearStep

\* the order of the steps of mount()
mountOrder(activeStep, rebuildAtBootstrapping, patchStep, rebuildAtMounting, clearStep) ==
  activeStep \o rebuildAtBootstrapping \o patchStep \o rebuildAtMounting \o clearStep

\* [...mountingFreers, ...bootstrappingFreers]
unmountOrder_mountingFirst(atBootstrapping, atMounting) == atMounting \o atBootstrapping

\* [...bootstrappingFreers, ...mountingFreers]
unmountOrder(atBootstrapping, atMounting) == atBootstrapping \o atMounting

\* the steps of unmount(): the freers, then sandbox.inactive()
unmountSteps(freeSteps, inactiveStep) == freeSteps \o inactiveStep

CurrentSt == [counters |-> appsCounterMap, proto |-> proto]

createSandboxContainerCall(appName) ==
  /\ ctCalls < MaxCalls
  /\ ~ctCreated[appName]
  /\ LET r == patchAtBootstrapping(CurrentSt, appName, ctCalls + 1)
     IN /\ bootstrappingFreers' = [bootstrappingFreers EXCEPT ![appName] = r.freers]
        /\ appsCounterMap' = r.st.counters
        /\ proto' = r.st.proto
        /\ ctTrace' = <<Step("patchAtBootstrapping", NoFreer, FALSE, r.st.counters)>>
  /\ ctCreated' = [ctCreated EXCEPT ![appName] = TRUE]
  /\ ctRunning' = [ctRunning EXCEPT ![appName] = TRUE]
  /\ ctLastCall' = [op |-> "create", app |-> appName]
  /\ ctCalls' = ctCalls + 1
  /\ UNCHANGED <<mountingFreers, sideEffectsRebuilders>>

createSandboxContainer(appName) ==
  createSandboxContainerCall(appName) /\ UNCHANGED notContainer

\* sandboxContainer.mount()
mountCall(appName) ==
  /\ ctCalls < MaxCalls
  /\ ctCreated[appName]
  /\ LET nb == Len(bootstrappingFreers[appName])
         rbs == sideEffectsRebuilders[appName]
         sideEffectsRebuildersAtBootstrapping ==
           SubSeq(rbs, 1, IF nb < Len(rbs) THEN nb ELSE Len(rbs))
         sideEffectsRebuildersAtMounting == SubSeq(rbs, nb + 1, Len(rbs))
         r == patchAtMounting(CurrentSt, appName, ctCalls + 1)
     IN /\ mountingFreers' = [mountingFreers EXCEPT ![appName] = r.freers]
        /\ appsCounterMap' = r.st.counters
        /\ proto' = r.st.proto
        /\ ctTrace' = mountOrder(
              <<Step("active", NoFreer, FALSE, appsCounterMap)>>,
              RebuildSteps(sideEffectsRebuildersAtBootstrapping, appsCounterMap),
              <<Step("patchAtMounting", NoFreer, FALSE, r.st.counters)>>,
              RebuildSteps(sideEffectsRebuildersAtMounting, r.st.counters),
              <<Step("clear", NoFreer, FALSE, r.st.counters)>>)
  /\ ctRunning' = [ctRunning EXCEPT ![appName] = TRUE]
  /\ sideEffectsRebuilders' = [sideEffectsRebuilders EXCEPT ![appName] = <<>>]
  /\ ctLastCall' = [op |-> "mount", app |-> appName]
  /\ ctCalls' = ctCalls + 1
  /\ UNCHANGED <<ctCreated, bootstrappingFreers>>

mount(appName) == mountCall(appName) /\ UNCHANGED notContainer

\* sandboxContainer.unmount()
unmountCall(appName) ==
  /\ ctCalls < MaxCalls
  /\ ctCreated[appName]
  /\ LET freers == unmountOrder(bootstrappingFreers[appName], mountingFreers[appName])
         r == FreeAll(freers, 1, [st |-> CurrentSt, steps |-> <<>>, rebuilders |-> <<>>])
     IN /\ sideEffectsRebuilders' = [sideEffectsRebuilders EXCEPT ![appName] = r.rebuilders]
        /\ appsCounterMap' = r.st.counters
        /\ proto' = r.st.proto
        /\ ctTrace' = unmountSteps(r.steps,
                                   <<Step("inactive", NoFreer, FALSE, r.st.counters)>>)
  /\ ctRunning' = [ctRunning EXCEPT ![appName] = FALSE]
  /\ ctLastCall' = [op |-> "unmount", app |-> appName]
  /\ ctCalls' = ctCalls + 1
  /\ UNCHANGED <<ctCreated, bootstrappingFreers, mountingFreers>>

unmount(appName) == unmountCall(appName) /\ UNCHANGED notContainer

InitContainer ==
  /\ ctCreated = [a \in Apps |-> FALSE]
  /\ bootstrappingFreers = [a \in Apps |-> <<>>]
  /\ mountingFreers = [a \in Apps |-> <<>>]
  /\ sideEffectsRebuilders = [a \in Apps |-> <<>>]
  /\ ctRunning = [a \in Apps |-> FALSE]
  /\ appsCounterMap = [a \in Apps |-> ZeroCount]
  /\ proto = NativeProto
  /\ ctTrace = <<>>
  /\ ctLastCall = [op |-> "none", app |-> "none"]
  /\ ctCalls = 0

NextContainer ==
  \/ \E a \in Apps : createSandboxContainer(a)
  \/ \E a \in Apps : mount(a)
  \/ \E a \in Apps : unmount(a)

(***************************************************************************)
(* Claims about createSandboxContainer and the dynamic append patchers     *)
(***************************************************************************)
StepIndexes(t, ev) == {i \in 1..Len(t) : t[i].ev = ev}

\* C3: every mount() activates the sandbox first, then invokes the rebuilders that
\* the bootstrap-time freers returned at the previous unmount, in install order,
\* then installs the mount-time patches, then invokes the rebuilders of the
\* previous mount-time freers, and finally empties the rebuilder list: no
\* mount-time rebuilder runs before the patch installation and no bootstrap-time
\* rebuilder after it.
C3_MountOrder ==
  [][ (ctCalls' = ctCalls + 1 /\ ctLastCall'.op = "mount") =>
        LET a == ctLastCall'.app
            t == ctTrace'
            rbs == sideEffectsRebuilders[a]
            rebuilt == SelectSeq(t, LAMBDA e : e.ev = "rebuild")
        IN /\ t[1].ev = "active"
           /\ Cardinality(StepIndexes(t, "active")) = 1
           /\ t[Len(t)].ev = "clear"
           /\ Cardinality(StepIndexes(t, "patchAtMounting")) = 1
           /\ Len(rebuilt) = Len(rbs)
           /\ \A i \in 1..Len(rbs) : rebuilt[i].freer = rbs[i].of
           /\ \A i \in StepIndexes(t, "rebuild"), pp \in StepIndexes(t, "patchAtMounting") :
                 IF t[i].freer.mounting THEN pp < i ELSE i < pp
           /\ sideEffectsRebuilders'[a] = <<>>
           /\ ctRunning'[a]
    ]_vars

\* a mount() that replayed a bootstrap-time and a mount-time rebuilder
C3_Witness ==
  /\ ctLastCall.op = "mount"
  /\ \E i, j \in StepIndexes(ctTrace, "rebuild") :
        ~ctTrace[i].freer.mounting /\ ctTrace[j].freer.mounting

C5_HijackOnceUnpatchWhenAllZero ==
  /\ \A f \in DOMAIN proto : Len(proto[f]) <= 1
  /\ \A i \in 1..Len(ctTrace) :
        ctTrace[i].unpatched =>
           \A a \in Apps : /\ ctTrace[i].counters[a].bootstrappingPatchCount = 0
                           /\ ctTrace[i].counters[a].mountingPatchCount = 0

\* both apps have asked for the hijack and the last unmount() performed an unpatch
C5_Witness ==
  /\ \A a \in Apps : ctCreated[a]
  /\ \E a \in Apps : mountingFreers[a] # <<>>
  /\ \E i \in 1..Len(ctTrace) : ctTrace[i].unpatched

\* C6: the patch counts of every app are never negative, and a count changes only by
\* +1 (in a call that installs a patch) or by -1 (in a call that invokes freers).
C6_CountsNeverNegative ==
  [][ \A a \in Apps : \A status \in {"bootstrappingPatchCount", "mountingPatchCount"} :
        LET before == appsCounterMap[a][status]
            after == appsCounterMap'[a][status]
        IN /\ after >= 0
           /\ after - before \in {-1, 0, 1}
           /\ after = before + 1 => ctLastCall' = [op |-> IF status = "mountingPatchCount"
                                                        THEN "mount" ELSE "create", app |-> a]
           /\ after = before - 1 => ctLastCall' = [op |-> "unmount", app |-> a]
    ]_vars

\* create, unmount, unmount of one app: its bootstrap-time freer has been invoked
\* twice for one installation
C6_Witness ==
  /\ ctCalls = 3
  /\ ctLastCall.op = "unmount"
  /\ \E a \in Apps : /\ ctCreated[a] /\ mountingFreers[a] = <<>>
                     /\ Len(sideEffectsRebuilders[a]) = 1
                     /\ \A b \in Apps \ {a} : ~ctCreated[b]

\* C14: the running flag of a sandbox is false from its creation until the first
\* mount(), true after every mount() and false after every unmount().
C14_RunningOnlyWhileMounted ==
  [][ ctCalls' = ctCalls + 1 =>
        (ctRunning'[ctLastCall'.app] <=> ctLastCall'.op = "mount")
    ]_vars

\* C27: after an unmount() that leaves the bootstrapping and mounting patch counts of
\* every app at zero, appendChild, insertBefore and removeChild of the head and body
\* prototypes are the native functions.
C27_NativeWhenAllUnmounted ==
  (ctLastCall.op = "unmount" /\ isAllAppsUnmounted(appsCounterMap)) => proto = NativeProto

\* C31: after an unmount() of a container, whatever mount() and unmount() calls came
\* before it, the mounting patch count of its app is zero.
C31_UnmountFreesEveryMount ==
  ctLastCall.op = "unmount" => appsCounterMap[ctLastCall.app].mountingPatchCount = 0

(***************************************************************************)
(* loadApp: singular mode.  Each member of parcelConfig.mount / unmount is *)
(* an async function; the routing layer awaits one before it calls the     *)
(* next, and tasks of different apps interleave between them.  The apps    *)
(* have different names, so the unmountPromise wait that loadMicroApp adds *)
(* for instances with the same name and container never applies to them.   *)
(***************************************************************************)
MaxDeferreds == 2

\* validateSingularMode(singular, app)
validateSingularMode(a) == ldSingular[a]

\* what `await (prevAppUnmountedDeferred && prevAppUnmountedDeferred.promise)`
\* waits for when app a reaches it
SingularWait(a) ==
  IF validateSingularMode(a) /\ prevAppUnmountedDeferred # 0
  THEN prevAppUnmountedDeferred ELSE 0

\* the awaited promise has been resolved
Resumable(a) == IF ldAwait[a] = 0 THEN TRUE ELSE ldDeferreds[ldAwait[a]]

\* assertElementExist(element, msg)
assertElementExist(exists) == [threw |-> ~exists]

\* render that never asserts that the container exists
render_unasserted(legacyRender, containerExists, phase) == [threw |-> FALSE]

\* the render function of getRender: whether it throws a QiankunError.  With the
\* deprecated render function of the app it returns before it looks at the container.
render(legacyRender, containerExists, phase) ==
  IF legacyRender THEN [threw |-> FALSE]
  ELSE IF phase # "unmounted" THEN assertElementExist(containerExists)
       ELSE [threw |-> FALSE]

\* the function of getAppWrapperGetter for an app whose wrapper element exists: with the
\* deprecated render function and strictStyleIsolation or scopedCSS it throws a
\* QiankunError
appWrapperGetter(legacyRender) == [threw |-> legacyRender]

\* an unmount chain that unmounts the sandbox first
parcelConfigUnmount_sandboxFirst ==
  <<"unmountSandbox", "unmountHooks", "unmountRender", "unmountResolve">>

\* parcelConfig.unmount: beforeUnmount and the unmount of the app, unmountSandbox,
\* afterUnmount and render 'unmounted', the resolve of prevAppUnmountedDeferred
parcelConfigUnmount ==
  <<"unmountHooks", "unmountSandbox", "unmountRender", "unmountResolve">>

\* where the task of an app stands before the i-th member of parcelConfig.unmount
UnmountPc(i) ==
  IF i = 1 THEN "mounted"
  ELSE IF i > Len(parcelConfigUnmount) THEN "notMounted" ELSE parcelConfigUnmount[i]

UnmountIndex(member) == CHOOSE i \in 1..Len(parcelConfigUnmount) : parcelConfigUnmount[i] = member

\* a rejected promise of loadApp or of a member of the mount chain: the routing
\* layer calls no later member and hands the error to the caller
Rejected(a) ==
  /\ ldPc' = [ldPc EXCEPT ![a] = "broken"]
  /\ ldError' = [ldError EXCEPT ![a] = "QiankunError"]
  /\ ldAwait' = [ldAwait EXCEPT ![a] = 0]
  /\ UNCHANGED <<ldSingular, ldLegacyRender, ldDeferreds, prevAppUnmountedDeferred, ldSandboxMounted,
                 ldContainer, notLoader>>

\* the host page removes the container element from the document, or puts it back
toggleContainer(a) ==
  /\ ldContainer' = [ldContainer EXCEPT ![a] = ~@]
  /\ UNCHANGED <<ldSingular, ldLegacyRender, ldPc, ldAwait, ldDeferreds, prevAppUnmountedDeferred,
                 ldSandboxMounted, ldError, notLoader>>

\* loadApp up to its singular wait
loadApp(a) ==
  /\ ldPc[a] = "notLoaded"
  /\ ldPc' = [ldPc EXCEPT ![a] = "loadWait"]
  /\ ldAwait' = [ldAwait EXCEPT ![a] = SingularWait(a)]
  /\ UNCHANGED <<ldSingular, ldLegacyRender, ldDeferreds, prevAppUnmountedDeferred, ldSandboxMounted,
                 ldContainer, ldError, notLoader>>

\* loadApp after its singular wait: render 'loading', createSandboxContainer,
\* execScripts
loadAppResume(a) ==
  /\ ldPc[a] = "loadWait"
  /\ Resumable(a)
  /\ IF render(ldLegacyRender[a], ldContainer[a], "loading").threw
     THEN Rejected(a)
     ELSE /\ ldPc' = [ldPc EXCEPT ![a] = "notMounted"]
          /\ ldAwait' = [ldAwait EXCEPT ![a] = 0]
          /\ UNCHANGED <<ldSingular, ldLegacyRender, ldDeferreds, prevAppUnmountedDeferred, ldSandboxMounted,
                         ldContainer, ldError, notLoader>>

\* mount[1]: the singular check of the mount chain
mountSingularCheck(a) ==
  /\ ldPc[a] = "notMounted"
  /\ ldPc' = [ldPc EXCEPT ![a] = "mountWait"]
  /\ ldAwait' = [ldAwait EXCEPT ![a] = SingularWait(a)]
  /\ UNCHANGED <<ldSingular, ldLegacyRender, ldDeferreds, prevAppUnmountedDeferred, ldSandboxMounted,
                 ldContainer, ldError, notLoader>>

\* mount[2..4]: the wrapper element, render 'mounting', mountSandbox
mountSandbox(a) ==
  /\ ldPc[a] = "mountWait"
  /\ Resumable(a)
  /\ IF render(ldLegacyRender[a], ldContainer[a], "mounting").threw
     THEN Rejected(a)
     ELSE /\ ldPc' = [ldPc EXCEPT ![a] = "mountHooks"]
          /\ ldAwait' = [ldAwait EXCEPT ![a] = 0]
          /\ ldSandboxMounted' = [ldSandboxMounted EXCEPT ![a] = TRUE]
          /\ UNCHANGED <<ldSingular, ldLegacyRender, ldDeferreds, prevAppUnmountedDeferred, ldContainer,
                         ldError, notLoader>>

\* mount[5..8]: beforeMount, the app's mount, render 'mounted', afterMount
mountHooks(a) ==
  /\ ldPc[a] = "mountHooks"
  /\ IF appWrapperGetter(ldLegacyRender[a]).threw
        \/ render(ldLegacyRender[a], ldContainer[a], "mounted").threw
     THEN Rejected(a)
     ELSE /\ ldPc' = [ldPc EXCEPT ![a] = "mountDeferred"]
          /\ UNCHANGED <<ldSingular, ldLegacyRender, ldAwait, ldDeferreds, prevAppUnmountedDeferred,
                         ldSandboxMounted, ldContainer, ldError, notLoader>>

\* mount[9]: prevAppUnmountedDeferred = new Deferred()
mountNewDeferred(a) ==
  /\ ldPc[a] = "mountDeferred"
  /\ IF validateSingularMode(a)
     THEN /\ Len(ldDeferreds) < MaxDeferreds
          /\ ldDeferreds' = Append(ldDeferreds, FALSE)
          /\ prevAppUnmountedDeferred' = Len(ldDeferreds) + 1
     ELSE UNCHANGED <<ldDeferreds, prevAppUnmountedDeferred>>
  /\ ldPc' = [ldPc EXCEPT ![a] = "mounted"]
  /\ UNCHANGED <<ldSingular, ldLegacyRender, ldAwait, ldSandboxMounted, ldContainer, ldError, notLoader>>

\* unmount[0..1]: beforeUnmount, the app's unmount
unmountHooks(a) ==
  /\ ldPc[a] = UnmountPc(UnmountIndex("unmountHooks"))
  /\ IF appWrapperGetter(ldLegacyRender[a]).threw
     THEN Rejected(a)
     ELSE /\ ldPc' = [ldPc EXCEPT ![a] = UnmountPc(UnmountIndex("unmountHooks") + 1)]
          /\ UNCHANGED <<ldSingular, ldLegacyRender, ldAwait, ldDeferreds,
                         prevAppUnmountedDeferred, ldSandboxMounted, ldContainer, ldError,
                         notLoader>>

\* unmount[2]: unmountSandbox
unmountSandbox(a) ==
  /\ ldPc[a] = UnmountPc(UnmountIndex("unmountSandbox"))
  /\ ldPc' = [ldPc EXCEPT ![a] = UnmountPc(UnmountIndex("unmountSandbox") + 1)]
  /\ ldSandboxMounted' = [ldSandboxMounted EXCEPT ![a] = FALSE]
  /\ UNCHANGED <<ldSingular, ldLegacyRender, ldAwait, ldDeferreds, prevAppUnmountedDeferred, ldContainer,
                 ldError, notLoader>>

\* unmount[3..4]: afterUnmount, render 'unmounted'
unmountRender(a) ==
  /\ ldPc[a] = UnmountPc(UnmountIndex("unmountRender"))
  /\ IF render(ldLegacyRender[a], ldContainer[a], "unmounted").threw
     THEN Rejected(a)
     ELSE /\ ldPc' = [ldPc EXCEPT ![a] = UnmountPc(UnmountIndex("unmountRender") + 1)]
          /\ UNCHANGED <<ldSingular, ldLegacyRender, ldAwait, ldDeferreds, prevAppUnmountedDeferred,
                         ldSandboxMounted, ldContainer, ldError, notLoader>>

\* unmount[5]: prevAppUnmountedDeferred.resolve()
unmountResolve(a) ==
  /\ ldPc[a] = UnmountPc(UnmountIndex("unmountResolve"))
  /\ ldDeferreds' = IF validateSingularMode(a) /\ prevAppUnmountedDeferred # 0
                    THEN [ldDeferreds EXCEPT ![prevAppUnmountedDeferred] = TRUE]
                    ELSE ldDeferreds
  /\ ldPc' = [ldPc EXCEPT ![a] = UnmountPc(UnmountIndex("unmountResolve") + 1)]
  /\ UNCHANGED <<ldSingular, ldLegacyRender, ldAwait, prevAppUnmountedDeferred, ldSandboxMounted,
                 ldContainer, ldError, notLoader>>

\* loadApp has been called for no app of the set apps yet
LoaderStart(apps) ==
  /\ ldSingular \in [apps -> BOOLEAN]
  /\ ldLegacyRender \in [apps -> BOOLEAN]
  /\ ldPc = [a \in apps |-> "notLoaded"]
  /\ ldAwait = [a \in apps |-> 0]
  /\ ldDeferreds = <<>>
  /\ prevAppUnmountedDeferred = 0
  /\ ldSandboxMounted = [a \in apps |-> FALSE]
  /\ ldContainer = [a \in apps |-> TRUE]
  /\ ldError = [a \in apps |-> "none"]

InitLoader == LoaderStart(Apps)

\* three apps, all of them configured with a container
Tasks == Apps \cup {"app3"}

InitSingular ==
  /\ LoaderStart(Tasks)
  /\ ldLegacyRender = [a \in Tasks |-> FALSE]

\* the loader part as the other specifications start it
IdleLoader ==
  /\ InitLoader
  /\ ldSingular = [a \in Apps |-> TRUE]
  /\ ldLegacyRender = [a \in Apps |-> FALSE]

NextLoader ==
  \/ \E a \in Apps : toggleContainer(a)
  \/ \E a \in Apps : loadApp(a)
  \/ \E a \in Apps : loadAppResume(a)
  \/ \E a \in Apps : mountSingularCheck(a)
  \/ \E a \in Apps : mountSandbox(a)
  \/ \E a \in Apps : mountHooks(a)
  \/ \E a \in Apps : mountNewDeferred(a)
  \/ \E a \in Apps : unmountHooks(a)
  \/ \E a \in Apps : unmountSandbox(a)
  \/ \E a \in Apps : unmountRender(a)
  \/ \E a \in Apps : unmountResolve(a)

\* the same steps, for the three apps
NextSingular ==
  \/ \E a \in Tasks : toggleContainer(a)
  \/ \E a \in Tasks : loadApp(a)
  \/ \E a \in Tasks : loadAppResume(a)
  \/ \E a \in Tasks : mountSingularCheck(a)
  \/ \E a \in Tasks : mountSandbox(a)
  \/ \E a \in Tasks : mountHooks(a)
  \/ \E a \in Tasks : mountNewDeferred(a)
  \/ \E a \in Tasks : unmountHooks(a)
  \/ \E a \in Tasks : unmountSandbox(a)
  \/ \E a \in Tasks : unmountRender(a)
  \/ \E a \in Tasks : unmountResolve(a)

(***************************************************************************)
(* Claims about singular mode                                              *)
(***************************************************************************)

\* C7: under singular configuration the sandboxes of two apps are never mounted
\* together: the second app's mountSandbox does not run before the first app's
\* unmount chain has resolved.
C7_SingularMutualExclusion ==
  \A a, b \in Apps :
     (a # b /\ ldSingular[a] /\ ldSingular[b]) =>
        ~(ldSandboxMounted[a] /\ ldSandboxMounted[b])

\* the phase of the render call in the step that app a is about to take
RenderPhase(a) ==
  CASE ldPc[a] = "loadWait" -> "loading"
    [] ldPc[a] = "mountWait" -> "mounting"
    [] ldPc[a] = "mountHooks" -> "mounted"
    [] ldPc[a] = "unmountRender" -> "unmounted"
    [] OTHER -> "none"

\* C18: for an app configured with a container, a render in the loading, mounting or
\* mounted phase with no container element raises a QiankunError that reaches the
\* caller and no later step of the mount sequence runs; a render in the unmounted phase with no container element
\* raises nothing.
C18_MissingContainerAbortsMount ==
  [][ \A a \in Apps :
        /\ (ldPc'[a] # ldPc[a] /\ ~ldContainer[a] /\ ~ldLegacyRender[a]
              /\ RenderPhase(a) \in {"loading", "mounting", "mounted"}) =>
             /\ ldPc'[a] = "broken"
             /\ ldError'[a] = "QiankunError"
             /\ UNCHANGED <<ldSandboxMounted, ldDeferreds, prevAppUnmountedDeferred>>
        /\ (ldPc'[a] # ldPc[a] /\ ~ldContainer[a] /\ ~ldLegacyRender[a]
              /\ RenderPhase(a) = "unmounted") =>
             /\ ldPc'[a] = "unmountResolve"
             /\ ldError'[a] = "none"
        /\ ldPc[a] = "broken" =>
             /\ ldPc'[a] = "broken"
             /\ ldSandboxMounted'[a] = ldSandboxMounted[a]
    ]_vars

\* a mount chain has been aborted by the render of the mounted phase: the sandbox
\* of the app has been mounted and stays so
C18_Witness ==
  \E a \in Apps :
    /\ ldPc[a] = "broken"
    /\ ldError[a] = "QiankunError"
    /\ ldSandboxMounted[a]
    /\ ~ldContainer[a]
    /\ ~ldLegacyRender[a]

\* an app takes the step of its mount chain that runs the beforeMount hooks and its
\* mount lifecycle, or the step of its unmount chain that runs the beforeUnmount hooks
\* and its unmount lifecycle
LifecycleStep(a) ==
  /\ ldPc'[a] # ldPc[a]
  /\ ldPc[a] \in {"mountHooks", UnmountPc(UnmountIndex("unmountHooks"))}

\* C29: the beforeMount hooks and the mount lifecycle of an app, and its beforeUnmount
\* hooks and unmount lifecycle, run with the sandbox of the app mounted, and leave it
\* mounted; the sandbox is mounted by the step before the beforeMount hooks only, and
\* unmounted by the step after the unmount lifecycle only.
C29_LifecycleInsideSandbox ==
  [][ \A a \in Apps :
        /\ LifecycleStep(a) => ldSandboxMounted[a] /\ ldSandboxMounted'[a]
        /\ (~ldSandboxMounted[a] /\ ldSandboxMounted'[a]) =>
             /\ ldPc[a] = "mountWait"
             /\ ldPc'[a] = "mountHooks"
        /\ (ldSandboxMounted[a] /\ ~ldSandboxMounted'[a]) =>
             ldPc[a] = UnmountPc(UnmountIndex("unmountHooks") + 1)
    ]_vars

\* the beforeUnmount hooks and the unmount lifecycle of an app have resolved and its
\* sandbox is still mounted
C29_Witness ==
  \E a \in Apps :
    /\ ldPc[a] = UnmountPc(UnmountIndex("unmountHooks") + 1)
    /\ ldSandboxMounted[a]
    /\ ldError[a] = "none"

\* C30: an app whose mount chain has been aborted by a QiankunError (no container
\* element, or the deprecated render function together with scopedCSS or
\* strictStyleIsolation) has no mounted sandbox.
C30_AbortLeavesSandboxUnmounted ==
  \A a \in Apps :
    (ldPc[a] = "broken" /\ ldError[a] = "QiankunError") =>
      ~ldSandboxMounted[a]

\* no app is mounted, is being mounted past its singular check, or is being unmounted
NoAppMounted ==
  \A a \in DOMAIN ldPc :
     ldPc[a] \in {"notLoaded", "loadWait", "notMounted", "mountWait", "broken"}

\* C32: once no app is mounted, no load or mount waits for a previous-unmount deferred
\* that has not been resolved.
C32_NoWaiterLeftBlocked ==
  NoAppMounted => \A a \in DOMAIN ldPc : ldPc[a] \in {"loadWait", "mountWait"} => Resumable(a)

(***************************************************************************)
(* Strict sandbox, speedy mode: elements created through an app's document *)
(* proxy and the hijacked appendChild / insertBefore / removeChild of head *)
(* and body.  No excludeAssetFilter is configured; every script element   *)
(* has a src and an executable type, and execScripts calls its error       *)
(* callback when the request for the src fails; a link element is a        *)
(* stylesheet link with a href.                                            *)
(* A wrapper has two child lists: its head element and the wrapper itself. *)
(***************************************************************************)
MaxDomOps == 2

\* container calls in a behaviour of the document specification
MaxDomCalls == 3

Elements == {"e1", "e2"}

Tags == {"STYLE", "SCRIPT", "DIV"}

Hosts == {"host"}

AppendFns == {"headAppendChild", "bodyAppendChild", "headInsertBefore"}

RemoveFns == {"headRemoveChild", "bodyRemoveChild"}

Document == "document"

\* the child lists: head and body of the document, head element and wrapper of an app
DomSlots == ({Document} \cup Apps) \X {"head", "body"}

\* target: 'head' | 'body' of a hijacked function
DomTarget(fn) == IF fn \in {"bodyAppendChild", "bodyRemoveChild"} THEN "body" ELSE "head"

isHijackingTag(tagName) == tagName \in {"LINK", "STYLE", "SCRIPT"}

NoNode == [kind |-> "none", of |-> "none", no |-> 0]

ElementNode(e) == [kind |-> "element", of |-> e, no |-> 0]

\* document.createComment(...): a new node at every call
CommentNode(e, no) == [kind |-> "comment", of |-> e, no |-> no]

\* document.createElement('style') of convertLinkAsStyle: a new node at every call
StyleNode(e, no) == [kind |-> "style", of |-> e, no |-> no]

\* Array.prototype.indexOf, from 1; 0 when absent (-1 in the source)
IndexOf(seq, x) ==
  IF \E k \in 1..Len(seq) : seq[k] = x
  THEN CHOOSE k \in 1..Len(seq) : seq[k] = x /\ \A j \in 1..(k - 1) : seq[j] # x
  ELSE 0

RemoveAt(seq, k) == SubSeq(seq, 1, k - 1) \o SubSeq(seq, k + 1, Len(seq))

\* node is a child of the list
IsChild(children, slot, node) == IndexOf(children[slot], node) > 0

\* mountDOM.contains(node), mountDOM the head element of the wrapper (target head)
\* or the wrapper, which holds its head element (target body)
MountContains(children, appName, target, node) ==
  \/ IsChild(children, <<appName, "head">>, node)
  \/ target = "body" /\ IsChild(children, <<appName, "body">>, node)

\* the native appendChild / insertBefore called on parent: the node leaves its
\* parent and becomes the child before refChild, the last child for NoNode (null);
\* a refChild that is not a child of parent is a NotFoundError
rawDOMAppendOrInsertBefore(children, parent, node, refChild) ==
  IF refChild # NoNode /\ ~IsChild(children, parent, refChild)
  THEN [children |-> children, threw |-> TRUE]
  ELSE LET detached == [t \in DOMAIN children |-> SelectSeq(children[t], LAMBDA n : n # node)]
           k == IndexOf(detached[parent], refChild)
       IN [children |-> [detached EXCEPT ![parent] =
                           IF k = 0 THEN Append(@, node)
                           ELSE SubSeq(@, 1, k - 1) \o <<node>> \o SubSeq(@, k, Len(@))],
           threw |-> FALSE]

\* the native removeChild called on parent: a NotFoundError for a node that is
\* not its child
rawRemoveChild(children, parent, node) ==
  IF IsChild(children, parent, node)
  THEN [children |-> [children EXCEPT ![parent] = RemoveAt(@, IndexOf(@, node))],
        threw |-> FALSE]
  ELSE [children |-> children, threw |-> TRUE]

\* element[styleElementTargetSymbol] and element[styleElementRefNodeNo] of a node
NoSheetProps == [target |-> "none", refNo |-> -1]

SheetProps(props, node) == IF MapHas(props, node) THEN MapGet(props, node) ELSE NoSheetProps

\* the part of the document state that the hijacked functions read and write
NoFetch == [pending |-> 0, attempts |-> 0, requested |-> 0, failed |-> 0,
            onload |-> 0, onerror |-> 0]

\* fetchFn(href) of convertLinkAsStyle, and the fetch of execScripts(null, [src], ...):
\* one request for the insertion
fetchStarted(f) ==
  [f EXCEPT !.pending = @ + 1, !.attempts = @ + 1, !.requested = @ + 1]

\* a failed request is sent again and the element hears nothing
fetchSettled_retry(f, ok) ==
  IF ok THEN [f EXCEPT !.pending = @ - 1, !.onload = @ + 1]
  ELSE [f EXCEPT !.failed = @ + 1, !.attempts = @ + 1]

\* the promise of the request settles: then(...) ends with
\* manualInvokeElementOnLoad(element), catch(...) and the error callback of
\* execScripts call manualInvokeElementOnError(element)
fetchSettled(f, ok) ==
  IF ok THEN [f EXCEPT !.pending = @ - 1, !.onload = @ + 1]
  ELSE [f EXCEPT !.pending = @ - 1, !.failed = @ + 1, !.onerror = @ + 1]

\* element.onload(patchedEvent) throws inside manualInvokeElementOnLoad: in
\* convertLinkAsStyle the rejection of then(...) reaches catch(() =>
\* manualInvokeElementOnError(element)); for a script the exception leaves the success
\* callback into execScripts, which calls the error callback or not (caught)
onloadThrew(f, caught) ==
  IF caught THEN [f EXCEPT !.onerror = @ + 1] ELSE f

\* the error of a native call that threw
NativeError(threw) == IF threw THEN "NotFoundError" ELSE "none"

DomState ==
  [children |-> dmChildren, sheets |-> dynamicStyleSheetElements,
   links |-> dynamicLinkAttachedInlineStyleMap, scripts |-> dynamicScriptAttachedCommentMap,
   props |-> dmSheetProps, fetch |-> dmFetch, threw |-> FALSE, error |-> "none",
   warned |-> FALSE]

\* appendChildOrInsertBefore built by getOverwrittenAppendChildOrInsertBefore, with
\* isInvokedByMicroApp and containerConfigGetter of patchStrictSandbox; no numbers
\* the node it creates
appendChildOrInsertBefore(fn, e, refChild, no) ==
  LET target == DomTarget(fn)
      element == ElementNode(e)
      raw == rawDOMAppendOrInsertBefore(dmChildren, <<Document, target>>, element, refChild)
      original == [DomState EXCEPT !.children = raw.children, !.threw = raw.threw,
                       !.error = NativeError(raw.threw)]
      isInvokedByMicroApp == elementAttachContainerConfigMap[e] \in Apps
      appName == elementAttachContainerConfigMap[e]
      mountDOM == <<appName, target>>
      referenceNode == IF refChild # NoNode /\ MountContains(dmChildren, appName, target, refChild)
                       THEN refChild ELSE NoNode
      refNo == IndexOf(dmChildren[mountDOM], referenceNode) - 1
      \* defineNonEnumerableProperty(stylesheetElement, styleElementTargetSymbol, target)
      targeted == MapSet(dmSheetProps, element,
                         [SheetProps(dmSheetProps, element) EXCEPT !.target = target])
      converted == dmScopedCSS[appName] /\ dmTag[e] = "LINK"
      stylesheetElement == IF converted THEN StyleNode(e, no) ELSE element
      inserted == rawDOMAppendOrInsertBefore(dmChildren, mountDOM, stylesheetElement,
                                             referenceNode)
      comment == CommentNode(e, no)
      commented == rawDOMAppendOrInsertBefore(dmChildren, mountDOM, comment, referenceNode)
  IN IF ~isHijackingTag(dmTag[e]) \/ ~isInvokedByMicroApp THEN original
     ELSE IF dmTag[e] \in {"LINK", "STYLE"}
          THEN IF ~dmWrapper[appName]
               THEN [DomState EXCEPT !.props = targeted, !.threw = TRUE,
                                     !.error = "QiankunError"]
               ELSE IF inserted.threw
               THEN [DomState EXCEPT !.props = targeted, !.threw = TRUE,
                       !.error = "NotFoundError",
                       !.fetch = IF converted THEN [@ EXCEPT ![e] = fetchStarted(@)] ELSE @,
                       !.links = IF converted THEN [@ EXCEPT ![e] = stylesheetElement] ELSE @]
               ELSE [DomState EXCEPT
                       !.children = inserted.children,
                       !.fetch = IF converted THEN [@ EXCEPT ![e] = fetchStarted(@)] ELSE @,
                       !.links = IF converted THEN [@ EXCEPT ![e] = stylesheetElement] ELSE @,
                       !.props = IF referenceNode # NoNode /\ refNo >= 0
                                 THEN MapSet(targeted, stylesheetElement,
                                        [SheetProps(targeted, stylesheetElement)
                                           EXCEPT !.refNo = refNo])
                                 ELSE targeted,
                       !.sheets = [@ EXCEPT ![appName] = Append(@, stylesheetElement)]]
          ELSE IF ~dmWrapper[appName]
               THEN [DomState EXCEPT !.threw = TRUE, !.error = "QiankunError"]
               ELSE [DomState EXCEPT !.children = commented.children,
                                     !.threw = commented.threw,
                       !.error = NativeError(commented.threw),
                       !.fetch = [@ EXCEPT ![e] = fetchStarted(@)],
                                     !.scripts = [@ EXCEPT ![e] = comment]]

\* the node that stands for the child in the container: the inline style of a
\* converted link, the comment of a script, or the child
attachedElement(e) ==
  IF dmTag[e] = "SCRIPT"
  THEN (IF dynamicScriptAttachedCommentMap[e] # NoNode
        THEN dynamicScriptAttachedCommentMap[e] ELSE ElementNode(e))
  ELSE (IF dynamicLinkAttachedInlineStyleMap[e] # NoNode
        THEN dynamicLinkAttachedInlineStyleMap[e] ELSE ElementNode(e))

\* the body of the function that getNewRemoveChild returns, for the node attached
\* that it looks for in the container; caught: the try block has its catch.
\* threw: an error reaches the caller; warned: the catch block has logged one
removeChildOf(fn, e, attached, caught) ==
  LET target == DomTarget(fn)
      child == ElementNode(e)
      appName == elementAttachContainerConfigMap[e]
      dynamicElementIndex == IndexOf(dynamicStyleSheetElements[appName], attached)
      spliced == IF dmTag[e] # "SCRIPT" /\ dynamicElementIndex > 0
                 THEN [dynamicStyleSheetElements EXCEPT
                         ![appName] = RemoveAt(@, dynamicElementIndex)]
                 ELSE dynamicStyleSheetElements
      parentNode == CHOOSE s \in DomSlots : IsChild(dmChildren, s, attached)
      fallback == rawRemoveChild(dmChildren, <<Document, target>>, child)
  IN IF ~isHijackingTag(dmTag[e]) \/ appName \notin Apps
     THEN [DomState EXCEPT !.children = fallback.children, !.threw = fallback.threw,
                       !.error = NativeError(fallback.threw)]
     ELSE IF ~dmWrapper[appName]
     THEN \* appWrapperGetter() throws a QiankunError
          IF caught
          THEN [DomState EXCEPT !.sheets = spliced, !.warned = TRUE,
                                !.children = fallback.children, !.threw = fallback.threw,
                       !.error = NativeError(fallback.threw)]
          ELSE [DomState EXCEPT !.sheets = spliced, !.threw = TRUE,
                                !.error = "QiankunError"]
     ELSE IF MountContains(dmChildren, appName, target, attached)
     THEN [DomState EXCEPT !.sheets = spliced,
                           !.children = rawRemoveChild(dmChildren, parentNode,
                                                       attached).children]
     ELSE [DomState EXCEPT !.sheets = spliced, !.children = fallback.children,
                           !.threw = fallback.threw,
                       !.error = NativeError(fallback.threw)]

\* removeChild that looks for the child itself in the container
removeChild_child(fn, e) == removeChildOf(fn, e, ElementNode(e), TRUE)

\* removeChild without the catch block
removeChild_uncaught(fn, e) == removeChildOf(fn, e, attachedElement(e), FALSE)

\* removeChild built by getNewRemoveChild, with isInvokedByMicroApp and
\* containerConfigGetter of patchStrictSandbox
removeChild(fn, e) == removeChildOf(fn, e, attachedElement(e), TRUE)

\* a wrapper that never finds a recorded element among its descendants
appWrapperContains_never(children, appName, stylesheetElement) == FALSE

\* appWrapper.contains(stylesheetElement) of the rebuild of patchStrictSandbox
appWrapperContains(children, appName, stylesheetElement) ==
  MountContains(children, appName, "body", stylesheetElement)

\* reAppendElement of the rebuild of patchStrictSandbox for one recorded element
reAppendElement(children, props, appName, stylesheetElement) ==
  IF appWrapperContains(children, appName, stylesheetElement) THEN children
  ELSE LET mountDom == IF SheetProps(props, stylesheetElement).target = "head"
                       THEN <<appName, "head">> ELSE <<appName, "body">>
           refNo == SheetProps(props, stylesheetElement).refNo
           \* mountDom.childNodes[refNo] || null
           refNode == IF refNo >= 0 /\ refNo + 1 <= Len(children[mountDom])
                      THEN children[mountDom][refNo + 1] ELSE NoNode
       IN rawDOMAppendOrInsertBefore(children, mountDom, stylesheetElement, refNode).children

\* rebuildCSSRules with the reAppendElement of patchStrictSandbox, from sheet i on
RECURSIVE rebuildCSSRules(_, _, _, _, _)
rebuildCSSRules(children, props, sheets, appName, i) ==
  IF i > Len(sheets) THEN children
  ELSE rebuildCSSRules(reAppendElement(children, props, appName, sheets[i]),
                       props, sheets, appName, i + 1)

\* rebuilders.forEach((rebuild) => rebuild()): one rebuildCSSRules for each
\* rebuilder of a dynamic append freer
RECURSIVE Rebuilds(_, _, _, _, _)
Rebuilds(children, props, sheets, appName, rebuilders) ==
  IF rebuilders = <<>> THEN children
  ELSE Rebuilds(IF Head(rebuilders).of.type = "dynamicAppend"
                THEN rebuildCSSRules(children, props, sheets, appName, 1)
                ELSE children,
                props, sheets, appName, Tail(rebuilders))

\* rebuildCSSRules from sheet i on: the elements for which reAppendElement returned
\* true, whose captured rules are inserted again
RECURSIVE appendSuccess(_, _, _, _, _)
appendSuccess(children, props, sheets, appName, i) ==
  IF i > Len(sheets) THEN <<>>
  ELSE (IF appWrapperContains(children, appName, sheets[i]) THEN <<>> ELSE <<sheets[i]>>)
       \o appendSuccess(reAppendElement(children, props, appName, sheets[i]),
                        props, sheets, appName, i + 1)

\* rebuilders.forEach((rebuild) => rebuild()): the elements for which a reAppendElement
\* returned true, in order
RECURSIVE RebuildsAppendSuccess(_, _, _, _, _)
RebuildsAppendSuccess(children, props, sheets, appName, rebuilders) ==
  IF rebuilders = <<>> THEN <<>>
  ELSE IF Head(rebuilders).of.type = "dynamicAppend"
       THEN appendSuccess(children, props, sheets, appName, 1)
            \o RebuildsAppendSuccess(rebuildCSSRules(children, props, sheets, appName, 1),
                                     props, sheets, appName, Tail(rebuilders))
       ELSE RebuildsAppendSuccess(children, props, sheets, appName, Tail(rebuilders))

NoDomCall == [op |-> "none", fn |-> "none", elem |-> "none", threw |-> FALSE,
              error |-> "none",
              warned |-> FALSE, undoes |-> FALSE, before |-> <<>>]

\* loadApp: createElement(appContent, ...) for the initial wrapper, and mount[3]
createWrapper(a) ==
  /\ ~dmWrapper[a]
  /\ ~ctCreated[a] \/ ~ctRunning[a]
  /\ dmWrapper' = [dmWrapper EXCEPT ![a] = TRUE]
  /\ dmLast' = NoDomCall
  /\ UNCHANGED <<dmTag, elementAttachContainerConfigMap, dmChildren, dmScopedCSS,
                 dynamicStyleSheetElements, dynamicLinkAttachedInlineStyleMap,
                 dynamicScriptAttachedCommentMap, dmSheetProps, dmUnmounted, dmFetch, dmOps,
                 varsContainer, notDom>>

\* unmount[4]: render(null), appWrapperElement = null
removeWrapper(a) ==
  /\ dmWrapper[a]
  /\ ctCreated[a] /\ ~ctRunning[a]
  /\ dmWrapper' = [dmWrapper EXCEPT ![a] = FALSE]
  /\ dmChildren' = [dmChildren EXCEPT ![<<a, "head">>] = <<>>, ![<<a, "body">>] = <<>>]
  /\ dmLast' = NoDomCall
  /\ UNCHANGED <<dmTag, elementAttachContainerConfigMap, dmScopedCSS,
                 dynamicStyleSheetElements, dynamicLinkAttachedInlineStyleMap,
                 dynamicScriptAttachedCommentMap, dmSheetProps, dmUnmounted, dmFetch, dmOps,
                 varsContainer, notDom>>

\* loadApp: createSandboxContainer for the app, its wrapper being in place
domCreateSandboxContainerCall(a) ==
  /\ dmWrapper[a]
  /\ createSandboxContainerCall(a)
  /\ UNCHANGED <<varsDom, notDom>>

domCreateSandboxContainer(a) == ctCalls < MaxDomCalls /\ domCreateSandboxContainerCall(a)

\* the recorded stylesheets that are children of the wrapper of the app, in
\* document order
SheetOrder(children, sheets, a) ==
  SelectSeq(children[<<a, "head">>] \o children[<<a, "body">>],
            LAMBDA n : IndexOf(sheets[a], n) > 0)

\* mountSandbox: the rebuilders of the dynamic append freers put the recorded
\* elements back into the wrapper
domMountSandboxCall(a) ==
  /\ dmWrapper[a]
  /\ mountCall(a)
  /\ dmChildren' = Rebuilds(dmChildren, dmSheetProps, dynamicStyleSheetElements[a], a,
                            sideEffectsRebuilders[a])
  /\ dmLast' = NoDomCall
  /\ UNCHANGED <<dmWrapper, dmTag, elementAttachContainerConfigMap, dmScopedCSS,
                 dynamicStyleSheetElements, dynamicLinkAttachedInlineStyleMap,
                 dynamicScriptAttachedCommentMap, dmSheetProps, dmUnmounted, dmFetch, dmOps, notDom>>

domMountSandbox(a) == ctCalls < MaxDomCalls /\ domMountSandboxCall(a)

\* unmountSandbox
domUnmountSandboxCall(a) ==
  /\ unmountCall(a)
  /\ dmUnmounted' = [dmUnmounted EXCEPT
                       ![a] = [order |-> SheetOrder(dmChildren, dynamicStyleSheetElements, a),
                               ops |-> dmOps]]
  /\ UNCHANGED <<dmWrapper, dmTag, elementAttachContainerConfigMap, dmChildren, dmScopedCSS,
                 dynamicStyleSheetElements, dynamicLinkAttachedInlineStyleMap,
                 dynamicScriptAttachedCommentMap, dmSheetProps, dmFetch, dmLast, dmOps,
                 notDom>>

domUnmountSandbox(a) == ctCalls < MaxDomCalls /\ domUnmountSandboxCall(a)

\* document.createElement(tag): by the host page on the real document, or by the
\* code of an app on its document proxy (attachElementToProxy)
createElement(e, tag, by) ==
  /\ dmTag[e] = "none"
  /\ by \in Apps => ctCreated[by]
  /\ dmTag' = [dmTag EXCEPT ![e] = tag]
  /\ elementAttachContainerConfigMap' =
       [elementAttachContainerConfigMap EXCEPT ![e] = IF by \in Apps THEN by ELSE "none"]
  /\ UNCHANGED <<dmWrapper, dmChildren, dmScopedCSS, dynamicStyleSheetElements,
                 dynamicLinkAttachedInlineStyleMap, dynamicScriptAttachedCommentMap,
                 dmSheetProps, dmUnmounted, dmFetch, dmLast, dmOps, varsContainer, notDom>>

\* head.appendChild(e), body.appendChild(e) (refChild is NoNode),
\* head.insertBefore(e, refChild)
appendChildOrInsertBeforeCall(fn, e, refChild) ==
  /\ dmTag[e] # "none"
  /\ refChild # ElementNode(e)
  /\ LET raw == rawDOMAppendOrInsertBefore(dmChildren, <<Document, DomTarget(fn)>>,
                                           ElementNode(e), refChild)
         r == IF isOverwritten(proto[fn])
              THEN appendChildOrInsertBefore(fn, e, refChild, dmOps + 1)
              ELSE [DomState EXCEPT !.children = raw.children, !.threw = raw.threw,
                       !.error = NativeError(raw.threw)]
     IN /\ dmChildren' = r.children
        /\ dynamicStyleSheetElements' = r.sheets
        /\ dynamicLinkAttachedInlineStyleMap' = r.links
        /\ dynamicScriptAttachedCommentMap' = r.scripts
        /\ dmSheetProps' = r.props
        /\ dmFetch' = r.fetch
        /\ dmLast' = [op |-> "append", fn |-> fn, elem |-> e, threw |-> r.threw,
                      error |-> r.error,
                      warned |-> FALSE, undoes |-> FALSE, before |-> dmChildren]
  /\ dmOps' = dmOps + 1
  /\ UNCHANGED <<dmWrapper, dmTag, elementAttachContainerConfigMap, dmScopedCSS,
                 dmUnmounted, varsContainer, notDom>>

callAppendChildOrInsertBefore(fn, e, refChild) ==
  /\ dmOps < MaxDomOps
  /\ appendChildOrInsertBeforeCall(fn, e, refChild)

\* head.removeChild(e), body.removeChild(e)
removeChildCall(fn, e) ==
  /\ dmTag[e] # "none"
  /\ LET raw == rawRemoveChild(dmChildren, <<Document, DomTarget(fn)>>, ElementNode(e))
         r == IF isOverwritten(proto[fn])
              THEN removeChild(fn, e)
              ELSE [DomState EXCEPT !.children = raw.children, !.threw = raw.threw,
                       !.error = NativeError(raw.threw)]
     IN /\ dmChildren' = r.children
        /\ dynamicStyleSheetElements' = r.sheets
        /\ dmLast' = [op |-> "remove", fn |-> fn, elem |-> e, threw |-> r.threw,
                      error |-> r.error,
                      warned |-> r.warned,
                      \* the call before this one inserted the same element
                      undoes |-> dmLast.op = "append" /\ dmLast.elem = e /\ ~dmLast.threw,
                      before |-> dmChildren]
  /\ dmOps' = dmOps + 1
  /\ UNCHANGED <<dmWrapper, dmTag, elementAttachContainerConfigMap, dmScopedCSS,
                 dynamicLinkAttachedInlineStyleMap, dynamicScriptAttachedCommentMap,
                 dmSheetProps, dmUnmounted, dmFetch, varsContainer, notDom>>

InitDom ==
  /\ dmWrapper = [a \in Apps |-> FALSE]
  /\ dmTag = [e \in Elements |-> "none"]
  /\ elementAttachContainerConfigMap = [e \in Elements |-> "none"]
  /\ dmChildren = [t \in DomSlots |-> <<>>]
  /\ dmScopedCSS \in [Apps -> BOOLEAN]
  /\ dynamicStyleSheetElements = [a \in Apps |-> <<>>]
  /\ dynamicLinkAttachedInlineStyleMap = [e \in Elements |-> NoNode]
  /\ dynamicScriptAttachedCommentMap = [e \in Elements |-> NoNode]
  /\ dmSheetProps = <<>>
  /\ dmUnmounted = [a \in Apps |-> [order |-> <<>>, ops |-> 0]]
  /\ dmFetch = [e \in Elements |-> NoFetch]
  /\ dmLast = NoDomCall
  /\ dmOps = 0

\* the document part with scopedCSS off, as the other specifications start it
IdleDom ==
  /\ InitDom
  /\ dmScopedCSS = [a \in Apps |-> FALSE]

NextDom ==
  \/ \E a \in Apps : createWrapper(a)
  \/ \E a \in Apps : removeWrapper(a)
  \/ \E a \in Apps : domCreateSandboxContainer(a)
  \/ \E a \in Apps : domMountSandbox(a)
  \/ \E a \in Apps : domUnmountSandbox(a)
  \/ \E e \in Elements, tag \in Tags, by \in Apps \cup Hosts : createElement(e, tag, by)
  \/ \E fn \in AppendFns, e \in Elements : callAppendChildOrInsertBefore(fn, e, NoNode)

(***************************************************************************)
(* The dynamic stylesheets and scripts of one app: the elements are        *)
(* created by the code of the app, inserted before any child and removed.  *)
(***************************************************************************)
MaxSheetOps == 3

SheetApp == "app1"

SheetTags == {"STYLE", "LINK", "SCRIPT"}

\* the nodes a caller can name as the reference child
AllChildren == UNION {{dmChildren[s][k] : k \in 1..Len(dmChildren[s])} : s \in DomSlots}

\* the request for the stylesheet of a converted link or for an external script
\* of the app succeeds or fails
fetchSettles(e, ok, throws, caught) ==
  /\ dmFetch[e].pending > 0
  /\ dmFetch[e].onload + dmFetch[e].failed < MaxSheetOps
  /\ throws => ok
  /\ caught = (throws /\ (dmTag[e] = "LINK" \/ caught))
  /\ dmFetch' = [dmFetch EXCEPT
                   ![e] = IF throws THEN onloadThrew(fetchSettled(@, ok), caught)
                          ELSE fetchSettled(@, ok)]
  /\ UNCHANGED <<dmWrapper, dmTag, elementAttachContainerConfigMap, dmChildren, dmScopedCSS,
                 dynamicStyleSheetElements, dynamicLinkAttachedInlineStyleMap,
                 dynamicScriptAttachedCommentMap, dmSheetProps, dmUnmounted, dmLast, dmOps,
                 varsContainer, notDom>>

sheetCreateElement(e, tag) == createElement(e, tag, SheetApp)

sheetAppendChild(fn, e) ==
  /\ dmOps < MaxSheetOps
  /\ appendChildOrInsertBeforeCall(fn, e, NoNode)

sheetInsertBefore(e, refChild) ==
  /\ dmOps < MaxSheetOps
  /\ refChild # NoNode
  /\ appendChildOrInsertBeforeCall("headInsertBefore", e, refChild)

sheetRemoveChild(fn, e) ==
  /\ dmOps < MaxSheetOps
  /\ removeChildCall(fn, e)

InitSheets ==
  /\ InitDom
  /\ dmScopedCSS[SheetApp] \in BOOLEAN
  /\ \A a \in Apps \ {SheetApp} : ~dmScopedCSS[a]

NextSheets ==
  \/ createWrapper(SheetApp)
  \/ removeWrapper(SheetApp)
  \/ domCreateSandboxContainer(SheetApp)
  \/ domMountSandbox(SheetApp)
  \/ domUnmountSandbox(SheetApp)
  \/ \E e \in Elements, tag \in SheetTags : sheetCreateElement(e, tag)
  \/ \E fn \in {"headAppendChild", "bodyAppendChild"}, e \in Elements : sheetAppendChild(fn, e)
  \/ \E e \in Elements : \E refChild \in AllChildren : sheetInsertBefore(e, refChild)
  \/ \E fn \in RemoveFns, e \in Elements : sheetRemoveChild(fn, e)

MaxRemountCalls == 4

remountCreateSandboxContainer(a) ==
  ctCalls < MaxRemountCalls /\ domCreateSandboxContainerCall(a)

remountMountSandbox(a) == ctCalls < MaxRemountCalls /\ domMountSandboxCall(a)

remountUnmountSandbox(a) == ctCalls < MaxRemountCalls /\ domUnmountSandboxCall(a)

remountAppendChild(fn, e) ==
  /\ dmOps < MaxDomOps
  /\ appendChildOrInsertBeforeCall(fn, e, NoNode)

\* one app that is created, mounted, unmounted and mounted again, its wrapper being
\* removed by the unmount and created again for the mount, and its style elements
NextRemount ==
  \/ createWrapper(SheetApp)
  \/ removeWrapper(SheetApp)
  \/ remountCreateSandboxContainer(SheetApp)
  \/ remountMountSandbox(SheetApp)
  \/ remountUnmountSandbox(SheetApp)
  \/ \E e \in Elements : sheetCreateElement(e, "STYLE")
  \/ \E fn \in {"headAppendChild", "bodyAppendChild"}, e \in Elements :
        remountAppendChild(fn, e)

\* the converted links and the external scripts of one app and their requests
NextFetch ==
  \/ createWrapper(SheetApp)
  \/ domCreateSandboxContainer(SheetApp)
  \/ \E e \in Elements, tag \in {"LINK", "SCRIPT"} : sheetCreateElement(e, tag)
  \/ \E fn \in {"headAppendChild", "bodyAppendChild"}, e \in Elements : sheetAppendChild(fn, e)
  \/ \E e \in Elements, ok \in BOOLEAN, throws \in BOOLEAN, caught \in BOOLEAN :
        fetchSettles(e, ok, throws, caught)

(***************************************************************************)
(* Claims about the hijacked appendChild / insertBefore                    *)
(***************************************************************************)

\* C8: a call of the hijacked appendChild / insertBefore of head or body redirects
\* the element into an app's container only if the element is a style, link or
\* script element and the app it belongs to is active; in every other case the
\* original operation is performed on the original target and no container and
\* no record list changes.
C8_RedirectOnlyWhenActive ==
  [][ (dmOps' = dmOps + 1 /\ dmLast'.op = "append") =>
        LET e == dmLast'.elem
            owner == elementAttachContainerConfigMap[e]
            activeOwner == IF owner \in Apps THEN ctRunning[owner] ELSE FALSE
        IN \/ isHijackingTag(dmTag[e]) /\ activeOwner
           \/ /\ ~dmLast'.threw
              /\ dmChildren' = rawDOMAppendOrInsertBefore(dmChildren,
                                  <<Document, DomTarget(dmLast'.fn)>>, ElementNode(e),
                                  NoNode).children
              /\ dynamicStyleSheetElements' = dynamicStyleSheetElements
    ]_vars

(***************************************************************************)
(* Claims about the hijacked removeChild and the rebuild of stylesheets    *)
(***************************************************************************)

\* the child lists of the wrapper of an app
ContainerLists(children, a) == <<children[<<a, "head">>], children[<<a, "body">>]>>

DocumentLists(children) == <<children[<<Document, "head">>], children[<<Document, "body">>]>>

\* the call was a hijacked insertion that put a node into the container of the
\* app of its element
RedirectedInsert(call) ==
  /\ call.op = "append"
  /\ ~call.threw
  /\ isHijackingTag(dmTag[call.elem])
  /\ elementAttachContainerConfigMap[call.elem] \in Apps
  /\ isOverwritten(proto[call.fn])

\* a step that removes, through the hijacked removeChild, the element that the
\* step before it inserted through the hijacked appendChild / insertBefore
RemovesLastInsert ==
  /\ RedirectedInsert(dmLast)
  /\ dmLast'.op = "remove"
  /\ dmLast'.elem = dmLast.elem
  /\ isOverwritten(proto[dmLast'.fn])

\* C11 as stated: a redirected insertion followed by the removal of the same
\* element through the hijacked removeChild leaves the child lists of the
\* container exactly as they were before the insertion, and the node is taken
\* out of the container, not out of the document.
C11_InsertThenRemoveRestores ==
  [][ RemovesLastInsert =>
        LET a == elementAttachContainerConfigMap[dmLast.elem]
        IN /\ ContainerLists(dmChildren', a) = ContainerLists(dmLast.before, a)
           /\ DocumentLists(dmChildren') = DocumentLists(dmChildren)
    ]_vars

\* C11 amended: the same, for a node that was not a child of the container before
\* the insertion and that is not inserted through body and removed through head.
C11_FreshInsertThenRemoveRestores ==
  [][ ( /\ RemovesLastInsert
        /\ LET a == elementAttachContainerConfigMap[dmLast.elem]
           IN ~MountContains(dmLast.before, a, "body", attachedElement(dmLast.elem))
        /\ ~(DomTarget(dmLast.fn) = "body" /\ DomTarget(dmLast'.fn) = "head") ) =>
        LET a == elementAttachContainerConfigMap[dmLast.elem]
        IN /\ ~dmLast'.threw
           /\ ContainerLists(dmChildren', a) = ContainerLists(dmLast.before, a)
           /\ DocumentLists(dmChildren') = DocumentLists(dmChildren)
    ]_vars

\* a substitute node, put into a container that holds another node, has been removed
C11_Witness ==
  /\ dmLast.op = "remove"
  /\ dmLast.undoes
  /\ ~dmLast.threw
  /\ dmTag[dmLast.elem] \in {"LINK", "SCRIPT"}
  /\ attachedElement(dmLast.elem) # ElementNode(dmLast.elem)
  /\ \E a \in Apps : /\ elementAttachContainerConfigMap[dmLast.elem] = a
                      /\ ContainerLists(dmLast.before, a)
                           # ContainerLists(dmChildren, a)
                      /\ ContainerLists(dmChildren, a) # <<<<>>, <<>>>>

\* a step that mounts the app again after an unmount, into a new wrapper, no
\* document operation having happened since the unmount
Remounts(a) ==
  /\ ~ctRunning[a] /\ ctRunning'[a]
  /\ sideEffectsRebuilders[a] # <<>>
  /\ dmOps = dmUnmounted[a].ops

\* C12: after an unmount and a remount the recorded dynamic stylesheets are in the
\* wrapper again, in the relative order they had before the unmount, whatever
\* appends, insert-befores and removals were performed while mounted.
C12_RebuildKeepsOrder ==
  [][ \A a \in Apps :
        Remounts(a) =>
          SelectSeq(SheetOrder(dmChildren', dynamicStyleSheetElements', a),
                    LAMBDA n : IndexOf(dmUnmounted[a].order, n) > 0) = dmUnmounted[a].order
    ]_vars

\* a step that calls the hijacked removeChild for an element of an app whose
\* wrapper element does not exist: the appWrapperGetter of the bookkeeping throws
RemovesWithoutWrapper ==
  /\ dmLast'.op = "remove"
  /\ dmOps' = dmOps + 1
  /\ isOverwritten(proto[dmLast'.fn])
  /\ isHijackingTag(dmTag[dmLast'.elem])
  /\ elementAttachContainerConfigMap[dmLast'.elem] \in Apps
  /\ ~dmWrapper[elementAttachContainerConfigMap[dmLast'.elem]]

\* C19: when the bookkeeping of the hijacked removeChild fails, the failure is
\* caught and logged, the native removeChild is called on the original parent with
\* the original child, and the failure of the bookkeeping does not reach the caller.
C19_BookkeepingFailureFallsBack ==
  [][ RemovesWithoutWrapper =>
        LET fallback == rawRemoveChild(dmChildren, <<Document, DomTarget(dmLast'.fn)>>,
                                       ElementNode(dmLast'.elem))
        IN /\ dmLast'.warned
           /\ dmLast'.error # "QiankunError"
           /\ dmLast'.error = NativeError(fallback.threw)
           /\ dmChildren' = fallback.children
    ]_vars

\* removeChild has been called for a style of an app whose wrapper has been removed
C19_Witness ==
  /\ dmLast.op = "remove"
  /\ dmLast.warned
  /\ dmLast.error # "QiankunError"
  /\ \E a \in Apps : /\ elementAttachContainerConfigMap[dmLast.elem] = a
                      /\ ~dmWrapper[a]
                      /\ ctCreated[a]

\* C20: when the request for a converted stylesheet link or for an external script
\* fails, the error handler of the original element is called and the request is
\* not made again.
C20_FetchFailureFiresError ==
  [][ \A e \in Elements :
        dmFetch'[e].failed = dmFetch[e].failed + 1 =>
          /\ dmFetch'[e].onerror = dmFetch[e].onerror + 1
          /\ dmFetch'[e].onload = dmFetch[e].onload
          /\ dmFetch'[e].attempts = dmFetch[e].attempts
          /\ dmFetch'[e].pending = dmFetch[e].pending - 1
    ]_vars

\* the request for the stylesheet of a converted link has failed
C20_Witness ==
  \E e \in Elements :
    /\ dmTag[e] = "LINK"
    /\ dynamicLinkAttachedInlineStyleMap[e] # NoNode
    /\ dmFetch[e].failed = 1
    /\ dmFetch[e].onerror = 1
    /\ dmFetch[e].attempts = 1

\* a mount() of app a whose rebuilders have put the recorded elements back
RebuildsSheets(a) ==
  /\ ctCalls' = ctCalls + 1
  /\ ctLastCall' = [op |-> "mount", app |-> a]
  /\ dmChildren' = Rebuilds(dmChildren, dmSheetProps, dynamicStyleSheetElements[a], a,
                            sideEffectsRebuilders[a])

\* C37: in a mount() of an app, the bootstrap-time and the mount-time rebuilder together
\* re-insert every recorded stylesheet element, and insert its captured rules again, at
\* most once.
C37_ReinsertedAtMostOnce ==
  [][ \A a \in Apps :
        RebuildsSheets(a) =>
          LET t == RebuildsAppendSuccess(dmChildren, dmSheetProps,
                                         dynamicStyleSheetElements[a], a,
                                         sideEffectsRebuilders[a])
          IN \A i, j \in 1..Len(t) : t[i] = t[j] => i = j
    ]_vars

\* the app has been mounted again after an unmount: the rebuilders of its bootstrap-time
\* and of its mount-time patcher have run over its recorded elements, which are in the
\* wrapper
C37_Witness ==
  /\ ctLastCall = [op |-> "mount", app |-> SheetApp]
  /\ Cardinality({i \in StepIndexes(ctTrace, "rebuild") :
                    ctTrace[i].freer.type = "dynamicAppend"}) = 2
  /\ dynamicStyleSheetElements[SheetApp] # <<>>
  /\ \A i \in 1..Len(dynamicStyleSheetElements[SheetApp]) :
        appWrapperContains(dmChildren, SheetApp, dynamicStyleSheetElements[SheetApp][i])

\* C38: when the request of a converted link or of a hijacked external script
\* settles, exactly one of the load event and the error event is fired on the original
\* element, once, whether the request succeeded or failed and whether the element's
\* onload handler returns or throws.
C38_ExactlyOneEvent ==
  [][ \A e \in Elements :
        dmFetch'[e].pending = dmFetch[e].pending - 1 =>
          (dmFetch'[e].onload + dmFetch'[e].onerror)
            = (dmFetch[e].onload + dmFetch[e].onerror) + 1
    ]_vars

(***************************************************************************)
(* Window listener patcher                                                 *)
(***************************************************************************)
MaxListenerOps == 4

EventTypes == {"click", "resize"}

Listeners == {"f", "g"}

\* rawOptions of addEventListener / removeEventListener: undefined, a boolean, or
\* an options object (capture: undefined, false or true)
RawOptions ==
  { [kind |-> "undefined", capture |-> Undef, once |-> FALSE],
    [kind |-> "boolean", capture |-> "true", once |-> FALSE],
    [kind |-> "object", capture |-> Undef, once |-> TRUE],
    [kind |-> "object", capture |-> "false", once |-> FALSE] }

\* normalizeOptions; once is the only other field the patcher reads
normalizeOptions(rawOptions) ==
  IF rawOptions.kind = "object"
  THEN [kind |-> "object", capture |-> rawOptions.capture, once |-> rawOptions.once]
  ELSE [kind |-> "object",
        capture |-> IF rawOptions.kind = "boolean" /\ rawOptions.capture = "true"
                    THEN "true" ELSE "false",
        once |-> FALSE]

\* findListenerIndex: 0 when there is none (-1 in the source)
findListenerIndex(listeners, rawListener, options) ==
  IF \E i \in 1..Len(listeners) :
        listeners[i].rawListener = rawListener /\ listeners[i].options.capture = options.capture
  THEN CHOOSE i \in 1..Len(listeners) :
         /\ listeners[i].rawListener = rawListener
         /\ listeners[i].options.capture = options.capture
         /\ \A j \in 1..(i - 1) :
               ~(listeners[j].rawListener = rawListener
                 /\ listeners[j].options.capture = options.capture)
  ELSE 0

\* listenerMap.get(type) || []
CachedTypeListeners(map, type) == IF MapHas(map, type) THEN MapGet(map, type) ELSE <<>>

\* a callback as the window sees it: the raw listener, or the closure built for a
\* once listener (wrapper: the operation that built it; gen: the listenerMap it
\* removes itself from; capture: the capture of the options it was built with)
Callback(rawListener, wrapper, gen, capture) ==
  [raw |-> rawListener, wrapper |-> wrapper, gen |-> gen, capture |-> capture]

RawCallback(rawListener) == Callback(rawListener, 0, 0, Undef)

Registration(type, listener, options) ==
  [type |-> type, listener |-> listener, capture |-> (options.capture = "true"),
   once |-> options.once]

SameRegistration(r, type, listener, options) ==
  r.type = type /\ r.listener = listener /\ r.capture = (options.capture = "true")

\* the window's own addEventListener: a registration with the same type, callback
\* and capture flag is not added again
rawAddEventListener(window, type, listener, options) ==
  IF \E r \in window : SameRegistration(r, type, listener, options)
  THEN window
  ELSE window \cup {Registration(type, listener, options)}

\* the window's own removeEventListener
rawRemoveEventListener(window, type, listener, options) ==
  {r \in window : ~SameRegistration(r, type, listener, options)}

\* removeCacheListener: the array of the type afterwards (spliced in place) and
\* the ListenerMapObject returned
removeCacheListener(map, type, rawListener, rawOptions) ==
  LET options == normalizeOptions(rawOptions)
      cachedTypeListeners == CachedTypeListeners(map, type)
      findIndex == findListenerIndex(cachedTypeListeners, rawListener, options)
  IN IF findIndex > 0
     THEN [map |-> MapSet(map, type,
                          SubSeq(cachedTypeListeners, 1, findIndex - 1)
                            \o SubSeq(cachedTypeListeners, findIndex + 1,
                                      Len(cachedTypeListeners))),
           item |-> cachedTypeListeners[findIndex]]
     ELSE [map |-> map,
           item |-> [listener |-> RawCallback(rawListener), options |-> options,
                     rawListener |-> rawListener]]

\* addCacheListener: the map afterwards and <<cacheListener>>, or <<>> for undefined
addCacheListener(map, type, rawListener, rawOptions, gen, no) ==
  LET options == normalizeOptions(rawOptions)
      cachedTypeListeners == CachedTypeListeners(map, type)
      findIndex == findListenerIndex(cachedTypeListeners, rawListener, options)
      listener == IF options.once
                  THEN Callback(rawListener, no, gen, options.capture)
                  ELSE RawCallback(rawListener)
      cacheListener == [listener |-> listener, options |-> options, rawListener |-> rawListener]
  IN IF findIndex > 0
     THEN [map |-> map, added |-> <<>>]
     ELSE [map |-> MapSet(map, type, Append(cachedTypeListeners, cacheListener)),
           added |-> <<cacheListener>>]

\* the patched global.removeEventListener: [map, window] afterwards
patchedRemoveEventListener(st, type, rawListener, rawOptions) ==
  LET r == removeCacheListener(st.map, type, rawListener, rawOptions)
  IN [map |-> r.map,
      window |-> rawRemoveEventListener(st.window, type, r.item.listener, r.item.options)]

\* the options object of a cached entry, passed back as rawOptions
AsRawOptions(options) == [kind |-> "object", capture |-> options.capture, once |-> options.once]

\* listeners.forEach(({ rawListener, options }) => global.removeEventListener(...))
\* from index k on: forEach reads the array of the type as it is at each index
RECURSIVE listenersForEach(_, _, _)
listenersForEach(st, type, k) ==
  LET listeners == CachedTypeListeners(st.map, type)
  IN IF k > Len(listeners) THEN st
     ELSE listenersForEach(
            patchedRemoveEventListener(st, type, listeners[k].rawListener,
                                       AsRawOptions(listeners[k].options)),
            type, k + 1)

\* listenerMap.forEach((listeners, type) => ...) from entry i on
RECURSIVE listenerMapForEach(_, _)
listenerMapForEach(st, i) ==
  IF i > Len(st.map) THEN st
  ELSE listenerMapForEach(listenersForEach(st, st.map[i].k, 1), i + 1)

\* the registrations that the entries of the registry stand for
RegistryRegistrations(map) ==
  UNION { { Registration(map[i].k, map[i].v[j].listener, map[i].v[j].options) :
              j \in 1..Len(map[i].v) } : i \in 1..Len(map) }

\* global.addEventListener(type, rawListener, rawOptions)
addEventListener(type, rawListener, rawOptions) ==
  /\ lsOps < MaxListenerOps
  /\ IF lsGlobal = "patched"
     THEN LET r == addCacheListener(listenerMap, type, rawListener, rawOptions, lsGen, lsOps + 1)
          IN /\ listenerMap' = r.map
             /\ lsWindow' = IF r.added = <<>> THEN lsWindow
                            ELSE rawAddEventListener(lsWindow, type, r.added[1].listener,
                                                     r.added[1].options)
     ELSE /\ lsWindow' = rawAddEventListener(lsWindow, type, RawCallback(rawListener),
                                             [capture |-> IF rawOptions.capture = "true"
                                                          THEN "true" ELSE "false",
                                              once |-> rawOptions.once])
          /\ UNCHANGED listenerMap
  /\ lsLast' = "add"
  /\ lsOps' = lsOps + 1
  /\ UNCHANGED <<lsGlobal, lsGen, lsPreFree, notListener>>

\* global.removeEventListener(type, rawListener, rawOptions)
removeEventListener(type, rawListener, rawOptions) ==
  /\ lsOps < MaxListenerOps
  /\ IF lsGlobal = "patched"
     THEN LET r == patchedRemoveEventListener([map |-> listenerMap, window |-> lsWindow],
                                              type, rawListener, rawOptions)
          IN listenerMap' = r.map /\ lsWindow' = r.window
     ELSE /\ lsWindow' = rawRemoveEventListener(lsWindow, type, RawCallback(rawListener),
                                                rawOptions)
          /\ UNCHANGED listenerMap
  /\ lsLast' = "remove"
  /\ lsOps' = lsOps + 1
  /\ UNCHANGED <<lsGlobal, lsGen, lsPreFree, notListener>>

\* an event of the type is dispatched on the window: the window drops its once
\* registrations, and the closure of a once listener calls removeCacheListener on
\* the listenerMap it was built for
\* once closures that call the raw listener and leave the registry as it is
onceClosures_kept(map, type, fired) == map

RECURSIVE onceClosures(_, _, _)
onceClosures(map, type, fired) ==
  IF fired = {} THEN map
  ELSE LET r == CHOOSE x \in fired : TRUE
           next == IF r.listener.wrapper # 0 /\ r.listener.gen = lsGen
                   THEN removeCacheListener(map, type, r.listener.raw,
                          [kind |-> "object", capture |-> r.listener.capture,
                           once |-> TRUE]).map
                   ELSE map
       IN onceClosures(next, type, fired \ {r})

dispatchEvent(type) ==
  /\ lsOps < MaxListenerOps
  /\ \E r \in lsWindow : r.type = type
  /\ lsWindow' = {r \in lsWindow : ~(r.type = type /\ r.once)}
  /\ listenerMap' = onceClosures(listenerMap, type, {r \in lsWindow : r.type = type /\ r.once})
  /\ lsLast' = "dispatch"
  /\ lsOps' = lsOps + 1
  /\ UNCHANGED <<lsGlobal, lsGen, lsPreFree, notListener>>

\* free() returned by patch(global)
freeListeners ==
  /\ lsOps < MaxListenerOps
  /\ lsGlobal = "patched"
  /\ LET r == listenerMapForEach([map |-> listenerMap, window |-> lsWindow], 1)
     IN lsWindow' = r.window
  /\ listenerMap' = <<>>
  /\ lsGlobal' = "raw"
  /\ lsPreFree' = RegistryRegistrations(listenerMap)
  /\ lsLast' = "free"
  /\ lsOps' = lsOps + 1
  /\ UNCHANGED <<lsGen, notListener>>

\* patch(global)
patchListeners ==
  /\ lsOps < MaxListenerOps
  /\ lsGlobal = "raw"
  /\ listenerMap' = <<>>
  /\ lsGen' = lsGen + 1
  /\ lsGlobal' = "patched"
  /\ lsLast' = "patch"
  /\ lsOps' = lsOps + 1
  /\ UNCHANGED <<lsWindow, lsPreFree, notListener>>

\* the state after the first patch(global)
InitListener ==
  /\ lsGlobal = "patched"
  /\ listenerMap = <<>>
  /\ lsGen = 1
  /\ lsWindow = {}
  /\ lsPreFree = {}
  /\ lsLast = "patch"
  /\ lsOps = 0

NextListener ==
  \/ \E type \in EventTypes, l \in Listeners, o \in RawOptions : addEventListener(type, l, o)
  \/ \E type \in EventTypes, l \in Listeners, o \in RawOptions : removeEventListener(type, l, o)
  \/ \E type \in EventTypes : dispatchEvent(type)
  \/ freeListeners
  \/ patchListeners

(***************************************************************************)
(* Claims about the window listener patcher                                *)
(***************************************************************************)

\* C9: after free(), no listener that was in the registry when free() was called
\* is still registered on the underlying window, and the registry is empty, for
\* any number of event types and of listeners per type.
C9_FreeUnregistersAll ==
  lsLast = "free" =>
     /\ listenerMap = <<>>
     /\ \A r \in lsPreFree :
           ~\E w \in lsWindow :
               w.type = r.type /\ w.listener = r.listener /\ w.capture = r.capture

\* C15: registering the same (type, listener, capture flag) more than once through
\* the patched addEventListener leaves one entry in the registry and one
\* registration on the underlying window.
C15_NoDuplicateRegistration ==
  lsGlobal = "patched" =>
    \A type \in EventTypes, l \in Listeners, capture \in BOOLEAN :
      LET listeners == CachedTypeListeners(listenerMap, type)
      IN /\ Cardinality({j \in 1..Len(listeners) :
                           /\ listeners[j].rawListener = l
                           /\ (listeners[j].options.capture = "true") = capture}) <= 1
         /\ Cardinality({r \in lsWindow :
                           r.type = type /\ r.listener.raw = l /\ r.capture = capture}) <= 1

\* the once registrations made by the patched addEventListener that a dispatch
\* step has invoked and the window has dropped
FiredOnce == {r \in lsWindow \ lsWindow' : r.once /\ r.listener.wrapper # 0}

MaxIntervalId == 3

IntervalIds == 1..MaxIntervalId

\* window.clearInterval
rawWindowClearInterval(timers, intervalId) == timers \ {intervalId}

\* the patched global.clearInterval: [intervals, timers] afterwards
patchedClearInterval(st, intervalId) ==
  [intervals |-> SelectSeq(st.intervals, LAMBDA id : id # intervalId),
   timers |-> rawWindowClearInterval(st.timers, intervalId)]

\* forEach reading, at each index, the array that `intervals` names at that time
RECURSIVE intervalsForEach_live(_, _, _)
intervalsForEach_live(array, i, st) ==
  IF i > Len(st.intervals) THEN st
  ELSE intervalsForEach_live(array, i + 1, patchedClearInterval(st, st.intervals[i]))

\* intervals.forEach((id) => global.clearInterval(id)) from index i on: array is the
\* array forEach was called on; the patched clearInterval never changes it
RECURSIVE intervalsForEach(_, _, _)
intervalsForEach(array, i, st) ==
  IF i > Len(array) THEN st
  ELSE intervalsForEach(array, i + 1, patchedClearInterval(st, array[i]))

\* global.setInterval(handler, timeout)
setInterval ==
  /\ ivNextId <= MaxIntervalId
  /\ ivTimers' = ivTimers \cup {ivNextId}
  /\ ivNextId' = ivNextId + 1
  /\ IF ivGlobal.setInterval = "patched"
     THEN /\ intervals' = Append(intervals, ivNextId)
          /\ ivCreated' = ivCreated \cup {ivNextId}
     ELSE UNCHANGED <<intervals, ivCreated>>
  /\ ivLast' = "setInterval"
  /\ UNCHANGED <<ivGlobal, ivCleared, notInterval>>

\* global.clearInterval(intervalId), for an id that window.setInterval has returned
clearInterval(intervalId) ==
  /\ intervalId < ivNextId
  /\ IF ivGlobal.clearInterval = "patched"
     THEN LET r == patchedClearInterval([intervals |-> intervals, timers |-> ivTimers],
                                        intervalId)
          IN /\ intervals' = r.intervals
             /\ ivTimers' = r.timers
             /\ ivCleared' = ivCleared \cup ({intervalId} \cap ivCreated)
     ELSE /\ ivTimers' = rawWindowClearInterval(ivTimers, intervalId)
          /\ UNCHANGED <<intervals, ivCleared>>
  /\ ivLast' = "clearInterval"
  /\ UNCHANGED <<ivGlobal, ivNextId, ivCreated, notInterval>>

\* free() returned by patch(global)
freeIntervals ==
  /\ ivGlobal.setInterval = "patched"
  /\ LET r == intervalsForEach(intervals, 1, [intervals |-> intervals, timers |-> ivTimers])
     IN /\ intervals' = r.intervals
        /\ ivTimers' = r.timers
  /\ ivGlobal' = [setInterval |-> "raw", clearInterval |-> "raw"]
  /\ ivLast' = "free"
  /\ UNCHANGED <<ivNextId, ivCreated, ivCleared, notInterval>>

\* patch(global)
patchIntervals ==
  /\ ivGlobal.setInterval = "raw"
  /\ intervals' = <<>>
  /\ ivGlobal' = [setInterval |-> "patched", clearInterval |-> "patched"]
  /\ ivCreated' = {}
  /\ ivCleared' = {}
  /\ ivLast' = "patch"
  /\ UNCHANGED <<ivTimers, ivNextId, notInterval>>

\* the state after the first patch(global); the host page may have intervals running
InitInterval ==
  /\ ivGlobal = [setInterval |-> "patched", clearInterval |-> "patched"]
  /\ intervals = <<>>
  /\ ivNextId \in 1..2
  /\ ivTimers \in SUBSET (1..(ivNextId - 1))
  /\ ivCreated = {}
  /\ ivCleared = {}
  /\ ivLast = "patch"

\* the interval part as the other specifications start it
IdleInterval ==
  /\ InitInterval
  /\ ivNextId = 1

NextInterval ==
  \/ setInterval
  \/ \E id \in IntervalIds : clearInterval(id)
  \/ freeIntervals
  \/ patchIntervals

(***************************************************************************)
(* Claims about the interval patcher                                       *)
(***************************************************************************)

\* C10: after free(), no interval that was created through the patched setInterval
\* since patch(global) and not cleared through the patched clearInterval is still
\* running, and global.setInterval / global.clearInterval are the raw functions.
C10_FreeClearsIntervals ==
  ivLast = "free" =>
     /\ \A id \in ivCreated \ ivCleared : id \notin ivTimers
     /\ ivGlobal.setInterval = "raw"
     /\ ivGlobal.clearInterval = "raw"

\* free() called with two intervals outstanding and a third cleared before
C10_Witness ==
  /\ ivLast = "free"
  /\ Cardinality(ivCreated \ ivCleared) >= 2
  /\ ivCleared # {}

(***************************************************************************)
(* ScopedCSS (sandbox/patchers/css.ts): one style element processed by the *)
(* processor.  A cssText is a sequence of tokens: a word, or one character *)
(* of punctuation.  The textContent of the element is the sequence of its  *)
(* rules and comments; the sheet of an element holds the rules only.       *)
(* The selector of a rule of the model is one simple selector: a root      *)
(* selector, a class selector, or what an earlier rewriting made of them.  *)
(***************************************************************************)
MaxCssOps == 5

MaxObservers == 2

\* `${tag}[data-qiankun="${appName}"]` of two apps
Prefixes == {"div[data-qiankun=app1]", "div[data-qiankun=app2]"}

RootSelectors == {"body", "html", ":root"}

\* the tokens whose last character is one of [\w\-.#]
WordTokens == RootSelectors \cup Prefixes \cup
              {".title", "margin", "0", "Helvetica", "font-family", "@font-face"}

StyleRule(cssText) == [type |-> "STYLE", cssText |-> cssText]

FontFaceRule(cssText) == [type |-> "FONT_FACE", cssText |-> cssText]

Comment == [type |-> "COMMENT", cssText |-> <<"/*", "*/">>]

\* body { margin: 0; }   :root { font-family: body; }   html { margin: 0; }
\* .title { margin: 0; }   @font-face { font-family: Helvetica; }
CssRules ==
  { StyleRule(<<"body", " ", "{", " ", "margin", ":", " ", "0", ";", " ", "}">>),
    StyleRule(<<":root", " ", "{", " ", "font-family", ":", " ", "body", ";", " ", "}">>),
    StyleRule(<<"html", " ", "{", " ", "margin", ":", " ", "0", ";", " ", "}">>),
    StyleRule(<<".title", " ", "{", " ", "margin", ":", " ", "0", ";", " ", "}">>),
    FontFaceRule(<<"@font-face", " ", "{", " ", "font-family", ":", " ", "Helvetica", ";",
                   " ", "}">>) }

\* the texts the code of the app gives a style element
CssTexts ==
  {<<>>, <<Comment>>} \cup {<<r>> : r \in CssRules} \cup
  {<<r, s>> : r \in CssRules, s \in {StyleRule(<<".title", " ", "{", " ", "margin", ":", " ",
                                                 "0", ";", " ", "}">>)}}

\* sheet.cssRules of a style element with this text
cssRules(text) == SelectSeq(text, LAMBDA item : item.type # "COMMENT")

\* rule.selectorText.trim(): the tokens before " {"
selectorText(cssText) ==
  LET brace == CHOOSE i \in 1..Len(cssText) :
                 cssText[i] = "{" /\ \A j \in 1..(i - 1) : cssText[j] # "{"
  IN SubSeq(cssText, 1, brace - 2)

\* String.prototype.replace with rootSelectorRE = /((?:[^\w\-.#]|^)(body|html|:root))/gm
\* and the prefix as the replacement: a root word at the start, or after one character
\* that is not of [\w\-.#], is replaced together with that character
RECURSIVE replaceRootSelectorRE(_, _, _)
replaceRootSelectorRE(cssText, prefix, i) ==
  IF i > Len(cssText) THEN <<>>
  ELSE IF i = 1 /\ cssText[1] \in RootSelectors
       THEN <<prefix>> \o replaceRootSelectorRE(cssText, prefix, 2)
       ELSE IF i < Len(cssText) /\ cssText[i] \notin WordTokens
               /\ cssText[i + 1] \in RootSelectors
            THEN <<prefix>> \o replaceRootSelectorRE(cssText, prefix, i + 2)
            ELSE <<cssText[i]>> \o replaceRootSelectorRE(cssText, prefix, i + 1)

\* ruleStyle
ruleStyle(rule, prefix) ==
  LET selector == selectorText(rule.cssText)
  IN IF selector \in {<<r>> : r \in RootSelectors}
     THEN replaceRootSelectorRE(rule.cssText, prefix, 1)
     ELSE <<prefix, " ">> \o rule.cssText

\* rewrite: the css text, rule by rule
rewrite(rules, prefix) ==
  [i \in 1..Len(rules) |->
     IF rules[i].type = "STYLE"
     THEN StyleRule(ruleStyle(rules[i], prefix))
     ELSE rules[i]]

\* a change of the children, as by an assignment to textContent: a childList record for every
\* observer of the element, unless there was no child and there is none now
queueRecords(observers, before, after) ==
  IF before = <<>> /\ after = <<>> THEN observers
  ELSE [i \in 1..Len(observers) |->
          [observers[i] EXCEPT !.pending = TRUE]]

NoCssCall == [op |-> "none", prefix |-> "", before |-> <<>>, after |-> <<>>,
              rewrote |-> FALSE, tagged |-> FALSE]

\* process that does not look at the tag
process_untagged(tagged) == FALSE

\* process, line 57: ScopedCSS.ModifiedTag in styleNode
processSkips(tagged) == tagged

\* ScopedCSS.process(styleNode, prefix)
process(prefix) ==
  /\ cssOps < MaxCssOps
  /\ cssOps' = cssOps + 1
  /\ IF processSkips(cssModifiedTag)
     THEN /\ cssLast' = [NoCssCall EXCEPT !.op = "process", !.prefix = prefix,
                           !.before = textContent, !.after = textContent, !.tagged = TRUE]
          /\ UNCHANGED <<textContent, cssModifiedTag, cssObservers, cssRewrites>>
     ELSE IF textContent # <<>>
          THEN LET css == rewrite(cssRules(textContent), prefix)
               IN /\ textContent' = css
                  /\ cssModifiedTag' = TRUE
                  /\ cssObservers' = queueRecords(cssObservers, textContent, css)
                  /\ cssRewrites' = cssRewrites + 1
                  /\ cssLast' = [NoCssCall EXCEPT !.op = "process", !.prefix = prefix,
                                   !.before = textContent, !.after = css,
                                   !.rewrote = TRUE, !.tagged = cssModifiedTag]
          ELSE /\ Len(cssObservers) < MaxObservers
               /\ cssObservers' = Append(cssObservers, [prefix |-> prefix, pending |-> FALSE])
               /\ cssLast' = [NoCssCall EXCEPT !.op = "observe", !.prefix = prefix]
               /\ UNCHANGED <<textContent, cssModifiedTag, cssRewrites>>
  /\ UNCHANGED <<cssConnected, notCss>>

\* the code of the app gives the element its text
write(text) ==
  /\ cssOps < MaxCssOps
  /\ textContent # <<>> \/ text # <<>>
  /\ cssOps' = cssOps + 1
  /\ textContent' = text
  /\ cssObservers' = queueRecords(cssObservers, textContent, text)
  /\ cssLast' = [NoCssCall EXCEPT !.op = "write", !.before = textContent, !.after = text,
                   !.tagged = cssModifiedTag]
  /\ UNCHANGED <<cssModifiedTag, cssRewrites, cssConnected, notCss>>

\* the element is inserted into the document or removed from it
connect ==
  /\ cssConnected' = ~cssConnected
  /\ UNCHANGED <<textContent, cssModifiedTag, cssObservers, cssRewrites, cssLast, cssOps,
                 notCss>>

\* a callback that does not look at the tag
callbackSkips_untagged(tagged) == FALSE

\* the callback, line 91: ScopedCSS.ModifiedTag in styleNode
callbackSkips(tagged) == tagged

\* the callback of the i-th MutationObserver is called with its records: the first record
\* rewrites the element unless it is tagged, and tags it; the records after it find the tag.
\* styleNode.sheet is null while the element is not in a document.
notify(i) ==
  /\ cssOps < MaxCssOps
  /\ i \in 1..Len(cssObservers)
  /\ cssObservers[i].pending
  /\ cssOps' = cssOps + 1
  /\ LET taken == [cssObservers EXCEPT ![i].pending = FALSE]
         prefix == cssObservers[i].prefix
     IN IF callbackSkips(cssModifiedTag)
        THEN /\ cssObservers' = taken
             /\ cssLast' = [NoCssCall EXCEPT !.op = "notify", !.prefix = prefix,
                              !.before = textContent, !.after = textContent,
                              !.tagged = TRUE]
             /\ UNCHANGED <<textContent, cssModifiedTag, cssRewrites>>
        ELSE LET rules == IF cssConnected THEN cssRules(textContent) ELSE <<>>
                 css == rewrite(rules, prefix)
             IN /\ textContent' = css
                /\ cssModifiedTag' = TRUE
                /\ cssObservers' = queueRecords(taken, textContent, css)
                /\ cssRewrites' = cssRewrites + 1
                /\ cssLast' = [NoCssCall EXCEPT !.op = "notify", !.prefix = prefix,
                                 !.before = textContent, !.after = css,
                                 !.rewrote = TRUE, !.tagged = cssModifiedTag]
  /\ UNCHANGED <<cssConnected, notCss>>

InitCss ==
  /\ textContent \in CssTexts
  /\ cssConnected \in BOOLEAN
  /\ cssModifiedTag = FALSE
  /\ cssObservers = <<>>
  /\ cssRewrites = 0
  /\ cssLast = NoCssCall
  /\ cssOps = 0

IdleCss ==
  InitCss /\ textContent = <<>> /\ ~cssConnected

NextCss ==
  \/ \E prefix \in Prefixes : process(prefix)
  \/ \E text \in CssTexts : write(text)
  \/ \E i \in 1..MaxObservers : notify(i)
  \/ connect

(***************************************************************************)
(* Claims about ScopedCSS                                                  *)
(***************************************************************************)
\* a step that is a call of process
ProcessStep == cssOps' = cssOps + 1 /\ cssLast'.op \in {"process", "observe"}

\* a step that is a call of the callback of an observer
NotifyStep == cssOps' = cssOps + 1 /\ cssLast'.op = "notify"

\* C21: a rewriting tags the style element, and a call of process on a tagged element, with
\* any prefix, leaves its text as it is and does not rewrite it.
C21_ProcessedIsSkipped ==
  [][ /\ (cssRewrites' # cssRewrites => cssModifiedTag')
      /\ (cssModifiedTag /\ ProcessStep =>
            textContent' = textContent /\ cssRewrites' = cssRewrites) ]_vars

\* process was called on an element that another prefix had rewritten
C21_Witness ==
  /\ cssLast.op = "process"
  /\ cssLast.tagged
  /\ cssRewrites = 1
  /\ \E i \in 1..Len(textContent) : textContent[i].cssText[1] \in Prefixes \ {cssLast.prefix}

\* C22: process on an element without text rewrites nothing and leaves it untagged; the
\* first callback of an observer that finds the element untagged rewrites and tags it, and
\* an element that has an observer is rewritten at most once, whatever the later
\* mutations and the callbacks of the other observers of the element.
C22_DeferredRewriteOnce ==
  [][ /\ (ProcessStep /\ ~cssModifiedTag /\ textContent = <<>> =>
            cssLast'.op = "observe" /\ ~cssModifiedTag' /\ textContent' = <<>>
            /\ cssRewrites' = cssRewrites)
      /\ (NotifyStep /\ ~cssModifiedTag => cssModifiedTag' /\ cssRewrites' = cssRewrites + 1)
      /\ (Len(cssObservers) > 0 => cssRewrites' <= 1) ]_vars

\* two process calls on the empty element, then text: one callback has rewritten it and the
\* callback of the other observer has found the tag
C22_Witness ==
  /\ Len(cssObservers) = 2
  /\ cssRewrites = 1
  /\ cssLast.op = "notify"
  /\ cssLast.tagged
  /\ \E i \in 1..Len(textContent) : textContent[i].cssText[1] \in Prefixes

\* C23: a rewriting turns a style rule whose whole selector is a root selector into the
\* same rule with the prefix in the place of the selector.
C23_RootSelectorReplaced ==
  cssLast.rewrote /\ Len(cssLast.after) = Len(cssRules(cssLast.before)) =>
    \A i \in 1..Len(cssLast.after) :
      LET rule == cssRules(cssLast.before)[i]
      IN rule.type = "STYLE" /\ rule.cssText[1] \in RootSelectors /\ rule.cssText[2] = " "
         /\ rule.cssText[3] = "{" =>
           cssLast.after[i].cssText = <<cssLast.prefix>> \o Tail(rule.cssText)

(***************************************************************************)
(* The framework configuration (start, loadMicroApp) and the sandbox that  *)
(* loadApp creates for an app.  Of a configuration the model keeps its     *)
(* sandbox member: undefined, a boolean, or an object with loose / speedy. *)
(***************************************************************************)
Bool3 == {Undef, "true", "false"}

SandboxUndefined == [kind |-> "undefined", on |-> FALSE, loose |-> Undef, speedy |-> Undef]

SandboxBoolean(b) == [kind |-> "boolean", on |-> b, loose |-> Undef, speedy |-> Undef]

SandboxObject(loose, speedy) == [kind |-> "object", on |-> TRUE, loose |-> loose, speedy |-> speedy]

SandboxOptions ==
  {SandboxUndefined} \cup {SandboxBoolean(b) : b \in BOOLEAN}
  \cup {SandboxObject(loose, speedy) : loose \in Bool3, speedy \in Bool3}

NoInstance == [type |-> "none", speedy |-> FALSE, sandbox |-> SandboxUndefined]

\* const { sandbox = true } = configuration
sandboxOrDefault(sandbox) ==
  IF sandbox.kind = "undefined" THEN SandboxBoolean(TRUE) ELSE sandbox

\* autoDowngradeForLowVersionBrowser: the sandbox member of the configuration it returns
autoDowngradeForLowVersionBrowser(configured, hasProxy, destruct) ==
  LET sandbox == sandboxOrDefault(configured)
  IN IF sandbox.on
     THEN IF ~hasProxy
          THEN IF sandbox.kind = "object"
               THEN [sandbox EXCEPT !.loose = "true"]
               ELSE SandboxObject("true", Undef)
          ELSE IF ~destruct /\ (sandbox.kind = "boolean"
                                \/ (sandbox.kind = "object" /\ sandbox.speedy # "false"))
               THEN IF sandbox.kind = "object"
                    THEN [sandbox EXCEPT !.speedy = "false"]
                    ELSE SandboxObject(Undef, "false")
               ELSE configured
     ELSE configured

\* a factory that does not look at window.Proxy
newSandbox_proxyAssumed(hasProxy, useLooseSandbox_) ==
  IF useLooseSandbox_ THEN "LegacyProxy" ELSE "Proxy"

\* createSandboxContainer, lines 45-53: the class of the sandbox
newSandbox(hasProxy, useLooseSandbox_) ==
  IF hasProxy
  THEN IF useLooseSandbox_ THEN "LegacyProxy" ELSE "Proxy"
  ELSE "Snapshot"

\* loadApp, lines 415-437: the sandbox container of the app, if any
sandboxContainer(configured, hasProxy) ==
  LET sandbox == sandboxOrDefault(configured)
      useLooseSandbox == sandbox.kind = "object" /\ sandbox.loose = "true"
      speedySandbox == IF sandbox.kind = "object" THEN sandbox.speedy # "false" ELSE TRUE
  IN IF sandbox.on
     THEN [type |-> newSandbox(hasProxy, useLooseSandbox),
           speedy |-> hasProxy /\ ~useLooseSandbox /\ speedySandbox]
     ELSE [type |-> "none", speedy |-> FALSE]

\* start(opts)
start(opts) ==
  /\ ~started
  /\ frameworkConfiguration' =
       autoDowngradeForLowVersionBrowser(sandboxOrDefault(opts), fwProxy, fwDestruct)
  /\ fwOpts' = opts
  /\ started' = TRUE
  /\ UNCHANGED <<fwProxy, fwDestruct, fwInstance, notFramework>>

\* the loading function that registerMicroApps gave the routing layer, after its wait
\* for the start of the framework: loadApp(app, frameworkConfiguration, lifeCycles)
loadRegisteredApp(a) ==
  /\ started
  /\ fwInstance[a].type = "none"
  /\ fwInstance' = [fwInstance EXCEPT ![a] =
       [type |-> sandboxContainer(frameworkConfiguration, fwProxy).type,
        speedy |-> sandboxContainer(frameworkConfiguration, fwProxy).speedy,
        sandbox |-> fwOpts]]
  /\ UNCHANGED <<fwProxy, fwDestruct, started, frameworkConfiguration, fwOpts, notFramework>>

\* loadMicroApp(app, configuration): memorizedLoadingFn for an app that is not cached;
\* without a configuration it takes { ...frameworkConfiguration, singular: false }
loadMicroApp(a, given, configuration) ==
  /\ fwInstance[a].type = "none"
  /\ LET userConfiguration ==
           autoDowngradeForLowVersionBrowser(
             IF given THEN configuration ELSE frameworkConfiguration, fwProxy, fwDestruct)
     IN fwInstance' = [fwInstance EXCEPT ![a] =
          [type |-> sandboxContainer(userConfiguration, fwProxy).type,
           speedy |-> sandboxContainer(userConfiguration, fwProxy).speedy,
           sandbox |-> IF given THEN configuration ELSE fwOpts]]
  /\ UNCHANGED <<fwProxy, fwDestruct, started, frameworkConfiguration, fwOpts, notFramework>>

InitFramework ==
  /\ fwProxy \in BOOLEAN
  /\ fwDestruct \in BOOLEAN
  /\ started = FALSE
  /\ frameworkConfiguration = SandboxUndefined
  /\ fwOpts = SandboxUndefined
  /\ fwInstance = [a \in Apps |-> NoInstance]

IdleFramework ==
  InitFramework /\ fwProxy /\ fwDestruct

NextFramework ==
  \/ \E opts \in SandboxOptions : start(opts)
  \/ \E a \in Apps : loadRegisteredApp(a)
  \/ \E a \in Apps, configuration \in SandboxOptions : loadMicroApp(a, TRUE, configuration)
  \/ \E a \in Apps : loadMicroApp(a, FALSE, SandboxUndefined)

(***************************************************************************)
(* Claims about the sandbox factory                                        *)
(***************************************************************************)
\* the configuration asks for loose mode
LooseRequested(sandbox) == sandbox.kind = "object" /\ sandbox.loose = "true"

\* C24: the sandbox created for an app is the snapshot sandbox when window.Proxy is
\* missing, whatever the loose flag; otherwise the legacy sandbox when the configuration
\* asks for loose mode, and otherwise the proxy sandbox.
C24_StrategySelection ==
  \A a \in Apps :
    fwInstance[a].type # "none" =>
      fwInstance[a].type =
        IF ~fwProxy THEN "Snapshot"
        ELSE IF LooseRequested(fwInstance[a].sandbox) THEN "LegacyProxy" ELSE "Proxy"

\* without window.Proxy: a snapshot sandbox for a configuration with loose: false and
\* one for a configuration with loose: true
C24_Witness ==
  /\ ~fwProxy
  /\ \E a, b \in Apps :
       /\ fwInstance[a].type = "Snapshot" /\ fwInstance[a].sandbox.loose = "false"
       /\ fwInstance[b].type = "Snapshot" /\ fwInstance[b].sandbox.loose = "true"

(***************************************************************************)
(* rebindTarget2Fn (sandbox/common.ts) and the get trap of the proxy: the  *)
(* functions that the real window holds, read through the proxies of       *)
(* sandboxes that have the same globalContext.                             *)
(***************************************************************************)
MaxRebindOps == 4

Sandboxes == {"sandbox1", "sandbox2"}

\* the globalContext of a sandbox: the window
globalContextOf(sandbox) == RealWindow

FunctionKeys == {"k1", "k2"}

\* atob and log are callable, not bound and not constructible; Ctor is constructible;
\* boundFn is the result of a bind
Functions == {"atob", "log", "Ctor", "boundFn"}

isCallable(fn) == fn \in Functions

isBoundedFunction(fn) == fn = "boundFn"

isConstructable(fn) == fn = "Ctor"

\* a function as a value, and the result of the no-th Function.prototype.bind call
FunctionValue(fn) == [fn |-> fn, bound |-> FALSE, target |-> Null, no |-> 0]

BoundValue(fn, target, no) == [fn |-> fn, bound |-> TRUE, target |-> target, no |-> no]

NoBoundValue == [fn |-> Undef, bound |-> FALSE, target |-> Null, no |-> 0]

\* rebindTarget2Fn that binds at every call
rebindTarget2Fn_uncached(map, binds, target, fn) ==
  IF isCallable(fn) /\ ~isBoundedFunction(fn) /\ ~isConstructable(fn)
  THEN [value |-> BoundValue(fn, target, binds + 1),
        map |-> [map EXCEPT ![fn] = BoundValue(fn, target, binds + 1)],
        binds |-> binds + 1]
  ELSE [value |-> FunctionValue(fn), map |-> map, binds |-> binds]

\* rebindTarget2Fn: the value returned, functionBoundedValueMap and the number of binds
\* afterwards
rebindTarget2Fn(map, binds, target, fn) ==
  IF isCallable(fn) /\ ~isBoundedFunction(fn) /\ ~isConstructable(fn)
  THEN IF map[fn] # NoBoundValue
       THEN [value |-> map[fn], map |-> map, binds |-> binds]
       ELSE [value |-> BoundValue(fn, target, binds + 1),
             map |-> [map EXCEPT ![fn] = BoundValue(fn, target, binds + 1)],
             binds |-> binds + 1]
  ELSE [value |-> FunctionValue(fn), map |-> map, binds |-> binds]

\* sandbox.proxy[p] for a key that holds a function: the get trap of the proxy
proxyGetFunction(sandbox, p) ==
  /\ rbOps < MaxRebindOps
  /\ LET fn == rbWindow[p]
         r == rebindTarget2Fn(functionBoundedValueMap, rbBinds, globalContextOf(sandbox), fn)
     IN /\ functionBoundedValueMap' = r.map
        /\ rbBinds' = r.binds
        /\ rbReturned' = [rbReturned EXCEPT ![fn] = @ \cup {r.value}]
        /\ rbReaders' = [rbReaders EXCEPT ![fn] = @ \cup {sandbox}]
        /\ rbLast' = [target |-> globalContextOf(sandbox), fn |-> fn, value |-> r.value]
  /\ rbOps' = rbOps + 1
  /\ UNCHANGED <<rbWindow, notRebind>>

\* the host stores a function on the window
storeFunction(p, fn) ==
  /\ rbOps < MaxRebindOps
  /\ rbWindow[p] # fn
  /\ rbWindow' = [rbWindow EXCEPT ![p] = fn]
  /\ rbOps' = rbOps + 1
  /\ UNCHANGED <<functionBoundedValueMap, rbBinds, rbReturned, rbReaders, rbLast, notRebind>>

InitRebind ==
  /\ functionBoundedValueMap = [fn \in Functions |-> NoBoundValue]
  /\ rbWindow \in [FunctionKeys -> Functions]
  /\ rbBinds = 0
  /\ rbReturned = [fn \in Functions |-> {}]
  /\ rbReaders = [fn \in Functions |-> {}]
  /\ rbOps = 0
  /\ rbLast = [target |-> Null, fn |-> Undef, value |-> NoBoundValue]

IdleRebind ==
  InitRebind /\ rbWindow = [p \in FunctionKeys |-> "atob"]

NextRebind ==
  \/ \E sandbox \in Sandboxes, p \in FunctionKeys : proxyGetFunction(sandbox, p)
  \/ \E p \in FunctionKeys, fn \in Functions : storeFunction(p, fn)

(***************************************************************************)
(* Claims about rebindTarget2Fn                                            *)
(***************************************************************************)
\* C26: every read, through the proxy of any sandbox, of a callable, unbound and
\* non-constructible function that the window holds returns the same bound function.
C26_SameReboundFunction ==
  \A fn \in Functions :
    isCallable(fn) /\ ~isBoundedFunction(fn) /\ ~isConstructable(fn) =>
      /\ Cardinality(rbReturned[fn]) <= 1
      /\ \A value \in rbReturned[fn] : value.bound /\ value.fn = fn

\* a function has been read through the proxies of both sandboxes, more than twice
C26_Witness ==
  /\ rbOps >= 3
  /\ rbWindow = [p \in FunctionKeys |-> "atob"]
  /\ rbReaders["atob"] = Sandboxes
  /\ rbReaders["log"] = {}
  /\ Cardinality(rbReturned["atob"]) = 1

\* the objects a caller of rebindTarget2Fn passes as target
Targets == {RealWindow, "iframeWindow"}

\* rebindTarget2Fn(target, fn) called directly
rebind(target, fn) ==
  /\ rbOps < MaxRebindOps
  /\ LET r == rebindTarget2Fn(functionBoundedValueMap, rbBinds, target, fn)
     IN /\ functionBoundedValueMap' = r.map
        /\ rbBinds' = r.binds
        /\ rbReturned' = [rbReturned EXCEPT ![fn] = @ \cup {r.value}]
        /\ rbLast' = [target |-> target, fn |-> fn, value |-> r.value]
  /\ rbOps' = rbOps + 1
  /\ UNCHANGED <<rbWindow, rbReaders, notRebind>>

NextRebindTargets ==
  \/ \E sandbox \in Sandboxes, p \in FunctionKeys : proxyGetFunction(sandbox, p)
  \/ \E p \in FunctionKeys, fn \in Functions : storeFunction(p, fn)
  \/ \E target \in Targets, fn \in Functions : rebind(target, fn)

\* C40: the function that rebindTarget2Fn(target, fn) returns for a callable, unbound
\* and non-constructible fn calls fn with this = the target of that call, also when fn
\* was rebound before for another target.
C40_BoundToTargetOfCall ==
  LET fn == rbLast.fn
  IN (isCallable(fn) /\ ~isBoundedFunction(fn) /\ ~isConstructable(fn)) =>
       rbLast.value.bound /\ rbLast.value.fn = fn /\ rbLast.value.target = rbLast.target

(***************************************************************************)
(* registerMicroApps, loadMicroApp and start: the list of registered apps, *)
(* the loading functions given to the routing layer, and the cache of      *)
(* loadApp promises.  An app is its name; a container is an element of the *)
(* page with an XPath, an element that is not in the document, or none.    *)
(***************************************************************************)
MaxRegisterCalls == 2
MaxAppsArg == 2
MaxParcels == 3

Containers == {"none", "c1", "c2", "detached"}

\* the apps given to loadMicroApp
ParcelApps == {"app1"}

\* getContainerXPath(container): undefined without a container and for an element
\* that is not in the document
getContainerXPath(container) ==
  CASE container = "c1" -> "x1"
    [] container = "c2" -> "x2"
    [] OTHER -> Undef

\* `${name}-${containerXPath}`
appContainerXPathKey(name, containerXPath) == <<name, "-", containerXPath>>

\* the key of the cache that holds the name alone
nameKey(name) == <<name>>

NoKey == <<>>

\* the argument lists of registerMicroApps
AppLists == UNION {[1..n -> Apps] : n \in 0..MaxAppsArg}

\* apps.filter((app) => !microApps.some((registeredApp) => registeredApp.name === app.name))
unregisteredApps(registered, apps) ==
  SelectSeq(apps, LAMBDA name : ~\E i \in 1..Len(registered) : registered[i] = name)

\* unregisteredApps.forEach(... registerApplication({ name, ... }))
RECURSIVE registerApplication(_, _)
registerApplication(calls, names) ==
  IF names = <<>> THEN calls
  ELSE registerApplication([calls EXCEPT ![Head(names)] = @ + 1], Tail(names))

\* registerMicroApps(apps)
registerMicroApps(apps) ==
  /\ apRegisterCalls < MaxRegisterCalls
  /\ microApps' = microApps \o unregisteredApps(microApps, apps)
  /\ registerApplicationCalls' =
       registerApplication(registerApplicationCalls, unregisteredApps(microApps, apps))
  /\ apRegisterCalls' = apRegisterCalls + 1
  /\ UNCHANGED <<apLoader, appConfigPromiseGetterMap, apParcels, apLoadApps, notApi>>

\* a loadApp call: who made it, for which app, under which key its promise was
\* stored, whether start() had been called, whether its promise has settled
LoadAppCall(caller, name, key, afterStart) ==
  [caller |-> caller, name |-> name, key |-> key, afterStart |-> afterStart,
   settled |-> FALSE]

\* the routing layer calls the loading function of a registered app: loader(true), then
\* the function awaits frameworkStartedDefer.promise
activate(a) ==
  /\ registerApplicationCalls[a] > 0
  /\ apLoader[a].pc = "idle"
  /\ apLoader' = [apLoader EXCEPT ![a] = [pc |-> "awaitStarted", early |-> ~started]]
  /\ UNCHANGED <<microApps, registerApplicationCalls, appConfigPromiseGetterMap, apParcels,
                 apLoadApps, apRegisterCalls, notApi>>

\* a loading function that awaits nothing
frameworkStartedDefer_resolved(startCalled) == TRUE

\* frameworkStartedDefer.promise has been resolved: start() resolves it
frameworkStartedDefer(startCalled) == startCalled

\* the loading function of a registered app after its await: loadApp(...)
loadRegistered(a) ==
  /\ apLoader[a].pc = "awaitStarted"
  /\ frameworkStartedDefer(started)
  /\ apLoader' = [apLoader EXCEPT ![a].pc = "loadApp"]
  /\ apLoadApps' = Append(apLoadApps, LoadAppCall("registerMicroApps", a, NoKey, started))
  /\ UNCHANGED <<microApps, registerApplicationCalls, appConfigPromiseGetterMap, apParcels,
                 apRegisterCalls, notApi>>

\* start() of the API: the framework part's start with no options
startApi == start(SandboxUndefined)

\* loadMicroApp(app, configuration) up to mountRootParcel(memorizedLoadingFn, ...)
mountRootParcel(name, container, cacheLifecycleByAppName) ==
  /\ Len(apParcels) < MaxParcels
  /\ apParcels' = Append(apParcels,
       [name |-> name, container |-> container,
        containerXPath |-> getContainerXPath(container),
        cacheLifecycleByAppName |-> cacheLifecycleByAppName,
        pc |-> "created", promise |-> 0, key |-> NoKey])
  /\ UNCHANGED <<microApps, registerApplicationCalls, apLoader, appConfigPromiseGetterMap,
                 apLoadApps, apRegisterCalls, notApi>>

\* a loading function that never finds a promise in the cache
cachedKey_none(map, parcel) == NoKey

\* memorizedLoadingFn: the key under which it finds a promise in the cache
cachedKey(map, parcel) ==
  IF parcel.container = "none" THEN NoKey
  ELSE IF parcel.cacheLifecycleByAppName /\ MapHas(map, nameKey(parcel.name))
       THEN nameKey(parcel.name)
       ELSE IF /\ parcel.containerXPath # Undef
               /\ MapHas(map, appContainerXPathKey(parcel.name, parcel.containerXPath))
            THEN appContainerXPathKey(parcel.name, parcel.containerXPath)
            ELSE NoKey

\* memorizedLoadingFn: the key under which it stores the promise of its loadApp call
storedKey(parcel) ==
  IF parcel.container = "none" THEN NoKey
  ELSE IF parcel.cacheLifecycleByAppName THEN nameKey(parcel.name)
       ELSE IF parcel.containerXPath # Undef
            THEN appContainerXPathKey(parcel.name, parcel.containerXPath)
            ELSE NoKey

\* memorizedLoadingFn of the i-th loadMicroApp call, up to its first await
memorizedLoadingFn(i) ==
  /\ i <= Len(apParcels)
  /\ apParcels[i].pc = "created"
  /\ LET parcel == apParcels[i]
         hit == cachedKey(appConfigPromiseGetterMap, parcel)
         key == storedKey(parcel)
         parcelConfigObjectGetterPromise == Len(apLoadApps) + 1
     IN IF hit # NoKey
        THEN /\ apParcels' = [apParcels EXCEPT ![i].pc = "await", ![i].key = hit,
                                ![i].promise = MapGet(appConfigPromiseGetterMap, hit)]
             /\ UNCHANGED <<appConfigPromiseGetterMap, apLoadApps>>
        ELSE /\ apLoadApps' =
                  Append(apLoadApps, LoadAppCall("loadMicroApp", parcel.name, key, started))
             /\ appConfigPromiseGetterMap' =
                  IF key # NoKey
                  THEN MapSet(appConfigPromiseGetterMap, key, parcelConfigObjectGetterPromise)
                  ELSE appConfigPromiseGetterMap
             /\ apParcels' = [apParcels EXCEPT ![i].pc = "await", ![i].key = key,
                                ![i].promise = parcelConfigObjectGetterPromise]
  /\ UNCHANGED <<microApps, registerApplicationCalls, apLoader, apRegisterCalls, notApi>>

\* the promise of a loadApp call settles
settle(p) ==
  /\ p <= Len(apLoadApps)
  /\ ~apLoadApps[p].settled
  /\ apLoadApps' = [apLoadApps EXCEPT ![p].settled = TRUE]
  /\ UNCHANGED <<microApps, registerApplicationCalls, apLoader, appConfigPromiseGetterMap,
                 apParcels, apRegisterCalls, notApi>>

InitApi ==
  /\ microApps = <<>>
  /\ registerApplicationCalls = [a \in Apps |-> 0]
  /\ apLoader = [a \in Apps |-> [pc |-> "idle", early |-> FALSE]]
  /\ appConfigPromiseGetterMap = <<>>
  /\ apParcels = <<>>
  /\ apLoadApps = <<>>
  /\ apRegisterCalls = 0

IdleApi == InitApi

\* registerMicroApps, the loading functions of the registered apps, start
NextApi ==
  \/ \E apps \in AppLists : registerMicroApps(apps)
  \/ \E a \in Apps : activate(a)
  \/ \E a \in Apps : loadRegistered(a)
  \/ startApi

\* loadMicroApp and its loading functions
NextParcels ==
  \/ \E name \in ParcelApps, container \in Containers, byName \in BOOLEAN :
        mountRootParcel(name, container, byName)
  \/ \E i \in 1..MaxParcels : memorizedLoadingFn(i)
  \/ \E p \in 1..MaxParcels : settle(p)

(***************************************************************************)
(* Claims about registerMicroApps, loadMicroApp and start                  *)
(***************************************************************************)
\* the keys of the cache
CacheKeys ==
  {nameKey(name) : name \in ParcelApps}
  \cup {appContainerXPathKey(name, getContainerXPath(c)) :
          name \in ParcelApps, c \in {"c1", "c2"}}

\* the loading functions that have run and have a cache key: the key they found in the
\* cache, or the key under which they stored the promise of their loadApp call
Keyed(k) == {i \in 1..Len(apParcels) : apParcels[i].pc = "await" /\ apParcels[i].key = k}

\* C33: for every cache key, at most one loadApp call has been made by the loading
\* functions that have that key, and every one of them awaits the promise of that call.
C33_LoadAppOncePerKey ==
  \A k \in CacheKeys :
     /\ Cardinality({p \in 1..Len(apLoadApps) : apLoadApps[p].key = k}) <= 1
     /\ \A i \in Keyed(k) : apLoadApps[apParcels[i].promise].key = k

\* two loadMicroApp calls with the same key overlap: the second loading function has found
\* the promise of the first, which has not settled
C33_Witness ==
  \E i, j \in 1..Len(apParcels) :
     /\ i < j
     /\ apParcels[i].pc = "await" /\ apParcels[j].pc = "await"
     /\ apParcels[i].key # NoKey
     /\ apParcels[i].key = apParcels[j].key
     /\ apParcels[i].promise = apParcels[j].promise
     /\ ~apLoadApps[apParcels[i].promise].settled

\* C34: every loadApp call of the loading function of a registered app is made after
\* start() has been called.
C34_NoLoadBeforeStart ==
  \A p \in 1..Len(apLoadApps) :
     apLoadApps[p].caller = "registerMicroApps" => apLoadApps[p].afterStart

\* the loading function of a registered app was called before start() and has called
\* loadApp since
C34_Witness ==
  \E a \in Apps : apLoader[a].pc = "loadApp" /\ apLoader[a].early

\* C35: no two entries of the list of registered apps have the same name, and
\* registerApplication has been called at most once with each name.
C35_RegisteredOnce ==
  /\ \A i, j \in 1..Len(microApps) : microApps[i] = microApps[j] => i = j
  /\ \A a \in Apps : registerApplicationCalls[a] <= 1

(***************************************************************************)
(* patchLooseSandbox: a style element appended to document.head through    *)
(* the prototype function, with the containers that createSandboxContainer *)
(* made.  The function on the prototype is the one that the patch call of  *)
(* its owner built: it holds the isInvokedByMicroApp and the               *)
(* containerConfigGetter of that call.                                     *)
(***************************************************************************)
MaxLooseOps == 2

NoLooseCall == [op |-> "none", active |-> {}, mounted |-> {}, owner |-> "none",
                target |-> "none", recorded |-> "none"]

\* () => checkActivityFunctions(window.location).some((name) => name === appName)
isInvokedByMicroApp(activeApps, appName) == appName \in activeApps

\* what the hijacked appendChild does with a style element: "none" when it calls the raw
\* function, else the app whose container config containerConfigGetter returns
looseContainerConfig(activeApps, owner) ==
  IF isInvokedByMicroApp(activeApps, owner) THEN owner ELSE "none"

\* the routing layer changes the active apps
reroute(activeApps) ==
  /\ lpActive # activeApps
  /\ lpActive' = activeApps
  /\ UNCHANGED <<lpRecorded, lpLast, lpOps, notLoose>>

\* document.head.appendChild(style) called by the code of the page
looseHeadAppendChild ==
  /\ lpOps < MaxLooseOps
  /\ LET fn == proto.headAppendChild
         owner == IF isOverwritten(fn) THEN fn[Len(fn)] ELSE "none"
         config == IF isOverwritten(fn) THEN looseContainerConfig(lpActive, owner) ELSE "none"
     IN /\ lpRecorded' = IF config # "none"
                         THEN [lpRecorded EXCEPT ![config] = @ + 1] ELSE lpRecorded
        /\ lpLast' = [op |-> "appendChild", active |-> lpActive,
                      mounted |-> {a \in Apps : ctRunning[a] /\ mountingFreers[a] # <<>>},
                      owner |-> owner,
                      target |-> IF config # "none" THEN config ELSE "head",
                      recorded |-> config]
  /\ lpOps' = lpOps + 1
  /\ UNCHANGED <<lpActive, notLoose>>

InitLoose ==
  /\ lpActive = {}
  /\ lpRecorded = [a \in Apps |-> 0]
  /\ lpLast = NoLooseCall
  /\ lpOps = 0

IdleLoose == InitLoose

NextLoose ==
  \/ \E a \in Apps : createSandboxContainer(a)
  \/ \E a \in Apps : mount(a)
  \/ \E a \in Apps : unmount(a)
  \/ \E activeApps \in SUBSET Apps : reroute(activeApps)
  \/ looseHeadAppendChild

(***************************************************************************)
(* Claims about patchLooseSandbox                                          *)
(***************************************************************************)
\* C36: a style element appended to document.head while app b is the active app, its
\* sandbox mounted, is inserted into the container of b and recorded in the list of b.
C36_RecordedInActiveApp ==
  \A b \in Apps :
     (lpLast.op = "appendChild" /\ lpLast.active = {b} /\ b \in lpLast.mounted) =>
       lpLast.target = b /\ lpLast.recorded = b

(***************************************************************************)
(* patchDocument in speedy mode: MutationObserver.prototype.observe and    *)
(* Node.prototype.compareDocumentPosition. A function is the native one    *)
(* (wraps = <<>>) or a wrapper; wraps lists the calls that created the     *)
(* wrappers, innermost first. The parentNode descriptor is left out.       *)
(***************************************************************************)
MaxDocumentOps == 4

NativeFn(name) == [name |-> name, wraps |-> <<>>]

\* const observe = function observe(...) { return nativeMutationObserverObserveFn.call(...) }
Wrapper(fn, call) == [fn EXCEPT !.wraps = Append(@, call)]

\* patchDocument({ sandbox, speedy: true }) as call number call: the prototype functions
\* and patchMap afterwards, and the functions its returned closure captured
patchDocument(observe, compare, map, call) ==
  LET nativeMutationObserverObserveFn == observe
      prevCompareDocumentPosition == compare
      patchObserve == nativeMutationObserverObserveFn \notin map
      map1 == IF patchObserve THEN map \cup {nativeMutationObserverObserveFn} ELSE map
      patchCompare == prevCompareDocumentPosition \notin map1
  IN [observe |-> IF patchObserve THEN Wrapper(nativeMutationObserverObserveFn, call)
                  ELSE observe,
      compare |-> IF patchCompare THEN Wrapper(prevCompareDocumentPosition, call)
                  ELSE compare,
      map |-> IF patchCompare THEN map1 \cup {prevCompareDocumentPosition} ELSE map1,
      unpatch |-> [observe |-> nativeMutationObserverObserveFn,
                   compare |-> prevCompareDocumentPosition]]

\* patchStrictSandbox(appName, ..., mounting, ..., speedySandbox = true)
speedyPatchStrictSandbox(a, mounting) ==
  /\ pdOps < MaxDocumentOps
  /\ LET r == patchDocument(mutationObserverObserve, compareDocumentPosition, patchMap,
                            pdOps + 1)
     IN /\ mutationObserverObserve' = r.observe
        /\ compareDocumentPosition' = r.compare
        /\ patchMap' = r.map
        /\ pdFreers' = Append(pdFreers, [app |-> a, mounting |-> mounting,
                                         unpatch |-> r.unpatch])
  /\ pdCounterMap' = calcAppCount(pdCounterMap, a, "increase", PatchStatus(mounting))
  /\ pdOps' = pdOps + 1
  /\ UNCHANGED notDocument

\* free() returned by the i-th call of patchStrictSandbox: unpatchDocument() runs once
\* all the counts are zero
speedyFree(i) ==
  /\ pdOps < MaxDocumentOps
  /\ i <= Len(pdFreers)
  /\ LET f == pdFreers[i]
         c == calcAppCount(pdCounterMap, f.app, "decrease", PatchStatus(f.mounting))
     IN /\ pdCounterMap' = c
        /\ IF isAllAppsUnmounted(c)
           THEN /\ mutationObserverObserve' = f.unpatch.observe
                /\ compareDocumentPosition' = f.unpatch.compare
                /\ patchMap' = patchMap \ {f.unpatch.observe, f.unpatch.compare}
           ELSE UNCHANGED <<mutationObserverObserve, compareDocumentPosition, patchMap>>
  /\ pdOps' = pdOps + 1
  /\ UNCHANGED <<pdFreers, notDocument>>

InitDocument ==
  /\ mutationObserverObserve = NativeFn("observe")
  /\ compareDocumentPosition = NativeFn("compareDocumentPosition")
  /\ patchMap = {}
  /\ pdCounterMap = [a \in Apps |-> ZeroCount]
  /\ pdFreers = <<>>
  /\ pdOps = 0

IdleDocument == InitDocument

NextDocument ==
  \/ \E a \in Apps, mounting \in BOOLEAN : speedyPatchStrictSandbox(a, mounting)
  \/ \E i \in 1..MaxDocumentOps : speedyFree(i)

(***************************************************************************)
(* Claims about patchDocument in speedy mode                               *)
(***************************************************************************)

\* C39: in speedy mode, after any calls of patchStrictSandbox and of the freers,
\* MutationObserver.prototype.observe and Node.prototype.compareDocumentPosition are
\* each the native function or one wrapper directly around the native function; no
\* wrapper is installed around a wrapper.
C39_NoNestedWrapper ==
  /\ Len(mutationObserverObserve.wraps) <= 1
  /\ Len(compareDocumentPosition.wraps) <= 1

Init ==
  InitLegacy /\ InitContainer /\ IdleLoader /\ IdleDom /\ InitListener /\ IdleInterval /\ IdleCss
  /\ IdleFramework /\ IdleRebind
  /\ IdleApi
  /\ IdleLoose
  /\ IdleDocument

SpecLegacy == Init /\ [][NextLegacy]_vars

SpecProxyGet == Init /\ [][NextProxyGet]_vars

SpecContainer == Init /\ [][NextContainer]_vars

InitOfLoader ==
  InitLegacy /\ InitContainer /\ InitLoader /\ IdleDom /\ InitListener /\ IdleInterval /\ IdleCss
  /\ IdleFramework /\ IdleRebind
  /\ IdleApi
  /\ IdleLoose
  /\ IdleDocument

SpecLoader == InitOfLoader /\ [][NextLoader]_vars

InitOfSingular ==
  InitLegacy /\ InitContainer /\ InitSingular /\ IdleDom /\ InitListener /\ IdleInterval /\ IdleCss
  /\ IdleFramework /\ IdleRebind
  /\ IdleApi
  /\ IdleLoose
  /\ IdleDocument

SpecSingular == InitOfSingular /\ [][NextSingular]_vars

SpecDom == Init /\ [][NextDom]_vars

InitOfSheets ==
  InitLegacy /\ InitContainer /\ IdleLoader /\ InitSheets /\ InitListener /\ IdleInterval /\ IdleCss
  /\ IdleFramework /\ IdleRebind
  /\ IdleApi
  /\ IdleLoose
  /\ IdleDocument

SpecSheets == InitOfSheets /\ [][NextSheets]_vars

SpecFetch == InitOfSheets /\ [][NextFetch]_vars

SpecRemount == InitOfSheets /\ [][NextRemount]_vars

SpecListener == Init /\ [][NextListener]_vars

InitOfInterval ==
  InitLegacy /\ InitContainer /\ IdleLoader /\ IdleDom /\ InitListener /\ InitInterval /\ IdleCss
  /\ IdleFramework /\ IdleRebind
  /\ IdleApi
  /\ IdleLoose
  /\ IdleDocument

SpecInterval == InitOfInterval /\ [][NextInterval]_vars

InitOfCss ==
  InitLegacy /\ InitContainer /\ IdleLoader /\ IdleDom /\ InitListener /\ IdleInterval /\ InitCss
  /\ IdleFramework /\ IdleRebind
  /\ IdleApi
  /\ IdleLoose
  /\ IdleDocument

SpecCss == InitOfCss /\ [][NextCss]_vars

InitOfFramework ==
  InitLegacy /\ InitContainer /\ IdleLoader /\ IdleDom /\ InitListener /\ IdleInterval /\ IdleCss
  /\ InitFramework /\ IdleRebind
  /\ IdleApi
  /\ IdleLoose
  /\ IdleDocument

SpecFramework == InitOfFramework /\ [][NextFramework]_vars

InitOfRebind ==
  InitLegacy /\ InitContainer /\ IdleLoader /\ IdleDom /\ InitListener /\ IdleInterval /\ IdleCss
  /\ IdleFramework /\ InitRebind
  /\ IdleApi
  /\ IdleLoose
  /\ IdleDocument

SpecRebind == InitOfRebind /\ [][NextRebind]_vars

SpecRebindTargets == InitOfRebind /\ [][NextRebindTargets]_vars

SpecApi == Init /\ [][NextApi]_vars

SpecParcels == Init /\ [][NextParcels]_vars

SpecLoose == Init /\ [][NextLoose]_vars

SpecDocument == Init /\ [][NextDocument]_vars

====
